---------------------------- MODULE Spec2Model ----------------------------
(***************************************************************************)
(* State-machine model of the watchtower dashboard's stream reconciler     *)
(* (frontend/src/hooks/useWebSocket.ts) and of the stores it writes        *)
(* (nocStore, alertStore).                                                 *)
(*                                                                         *)
(* Strings are sequences of one-character strings, so that toLowerCase,    *)
(* includes and === are computed, not assumed.  The device map is the      *)
(* sequence of its entries in Object.entries order.                        *)
(***************************************************************************)
EXTENDS Integers, Sequences, FiniteSets, TLC

VARIABLES
    \* ---- nocStore ----
    topology,             \* NullTopology, or the current Topology document
    storeConnected,       \* nocStore.isConnected
    \* ---- alertStore ----
    alerts,               \* Alert[]
    toasts,               \* Toast[]
    criticalOverlay,      \* <<>> (null) or <<alert>>
    removals,             \* toast ids whose removal timeout (dismissToast) is pending
    now,                  \* Date.now() as addToast last read it
    \* ---- useWebSocket: refs and hook state ----
    isConnected,          \* useState(false)
    wsRef,                \* 0 (null) or the slot of the referenced socket
    reconnectAttempts,    \* reconnectAttempts.current
    reconnectTimeoutRef,  \* 0 (null), a slot (its timer id), or FiredTimer
    pingIntervalRef,      \* 0 (null) or the slot whose onopen made the interval
    \* ---- the browser side of the sockets and timers ----
    readyState,           \* slot -> NONE | CONNECTING | OPEN | CLOSING | CLOSED
    viaTimer,             \* slot -> the socket was created by a reconnect timer
    timerPending,         \* slot -> the timeout set by the slot's onclose is pending
    timerDelay,           \* slot -> delay (ms) of that timeout
    orphanPings,          \* keepalive intervals no ref names any more
    constructorThrows,    \* `new WebSocket(WS_URL)` throws in this browser
    \* ---- bookkeeping of the environment (not program state) ----
    wanted,               \* connect() was called and disconnect() not since
    failedRetries,        \* reconnect attempts that failed since the last open
    \* ---- message delivery ----
    frame,                \* the text frame being delivered by ws.onmessage
    pc,                   \* idle | dispatch | done : position of ws.onmessage
    \* ---- identity resolution on its own ----
    lookup,               \* NoLookup, or [hostname, result] of the last call
    \* ---- TopologyCanvas: layout ----
    layout,               \* the node list, and the exit state of the resolver's loop
    overlap,              \* two bounding boxes, and what boxesOverlap or
                          \* calculatePushVector said of them
    projection,           \* inputs and outputs of one projection
    canvas,               \* Layout and TopologyCanvasInner: state, refs, store slices
    mapping,              \* a severity string and what mapSeverity makes of it
    loader                \* App.loadTopology and useAlerts.loadAlerts: flags and timers

storeVars == <<topology, alerts, toasts, criticalOverlay, removals, now>>
hookVars  == <<isConnected, storeConnected, wsRef, reconnectAttempts,
               reconnectTimeoutRef, pingIntervalRef>>
sockVars  == <<readyState, viaTimer, timerPending, timerDelay, orphanPings,
               constructorThrows>>
ghostVars == <<wanted, failedRetries>>
connVars  == <<hookVars, sockVars, ghostVars>>
msgVars   == <<frame, pc>>
pureVars  == <<lookup, layout, overlap, projection, canvas, mapping, loader>>
vars      == <<storeVars, connVars, msgVars, pureVars>>

---------------------------------------------------------------------------
(* Bounds of the model.                                                    *)

MaxHostLen  == 3      \* generated hostnames have at most this many characters
MaxDevices  == 2      \* devices in a topology snapshot
MaxBatch    == 2      \* entries in one status-change batch
MaxSockets  == 2      \* sockets and reconnect timers alive at a time
MaxAttempts == 6      \* consecutive failures the network is allowed
MaxOrphans  == 1      \* leaked keepalive intervals that are counted
MaxAlerts   == 2      \* alerts, and toasts, the alert specification lets in
MaxCount    == 3      \* active-alert counter the backend or a batch may reach
MaxTicks    == 1      \* milliseconds that pass, alert and toast specifications
MaxRemovals == 2      \* toast removal timeouts pending at a time
MaxAdds     == 6      \* addAlert calls, toast specification

---------------------------------------------------------------------------
(* Strings.                                                                *)

Chars == {"a", "A", "1", ".", "É"}

\* String.prototype.toLowerCase, one character: the letters of Basic Latin
\* and of the Latin-1 Supplement (the characters a string of this module can
\* hold) that have a lower-case form, each with that form at the same place
\* of LowerCase
UpperCase ==
    <<"A", "B", "C", "D", "E", "F", "G", "H", "I", "J", "K", "L", "M",
      "N", "O", "P", "Q", "R", "S", "T", "U", "V", "W", "X", "Y", "Z",
      "À", "Á", "Â", "Ã", "Ä", "Å", "Æ", "Ç", "È", "É", "Ê", "Ë", "Ì",
      "Í", "Î", "Ï", "Ð", "Ñ", "Ò", "Ó", "Ô", "Õ", "Ö", "Ø", "Ù", "Ú",
      "Û", "Ü", "Ý", "Þ">>

LowerCase ==
    <<"a", "b", "c", "d", "e", "f", "g", "h", "i", "j", "k", "l", "m",
      "n", "o", "p", "q", "r", "s", "t", "u", "v", "w", "x", "y", "z",
      "à", "á", "â", "ã", "ä", "å", "æ", "ç", "è", "é", "ê", "ë", "ì",
      "í", "î", "ï", "ð", "ñ", "ò", "ó", "ô", "õ", "ö", "ø", "ù", "ú",
      "û", "ü", "ý", "þ">>

toLowerChar(c) ==
    IF \E i \in 1..Len(UpperCase) : UpperCase[i] = c
    THEN LowerCase[CHOOSE i \in 1..Len(UpperCase) : UpperCase[i] = c]
    ELSE c

toLowerCase(s) == [i \in 1..Len(s) |-> toLowerChar(s[i])]

\* String.prototype.includes
includes(s, sub) ==
    \E i \in 1..(Len(s) - Len(sub) + 1) : SubSeq(s, i, i + Len(sub) - 1) = sub

\* all strings over Chars of length 0..n
RECURSIVE StringsUpTo(_)
StringsUpTo(n) ==
    IF n = 0 THEN {<<>>}
    ELSE LET shorter == StringsUpTo(n - 1)
         IN  shorter \cup {Append(s, c) : s \in {t \in shorter : Len(t) = n - 1},
                                          c \in Chars}

\* a field that is absent from a JSON object (undefined)
Undefined == <<"undefined">>

\* null, as a device id
null == <<>>

Statuses == {"up", "down", "degraded", "unknown"}


---------------------------------------------------------------------------
(* Devices and the device map.                                             *)

Device(id, ip, status) == [id |-> id, ip |-> ip, status |-> status]

Digits == {"0", "1", "2", "3", "4", "5", "6", "7", "8", "9"}

DigitValue(c) ==
    CASE c = "0" -> 0 [] c = "1" -> 1 [] c = "2" -> 2 [] c = "3" -> 3
      [] c = "4" -> 4 [] c = "5" -> 5 [] c = "6" -> 6 [] c = "7" -> 7
      [] c = "8" -> 8 [] OTHER -> 9

\* numeric order of two canonical digit strings: the shorter is the smaller,
\* and of two of one length the one with the smaller first differing digit
RECURSIVE IndexLess(_, _)
IndexLess(a, b) ==
    IF Len(a) # Len(b) THEN Len(a) < Len(b)
    ELSE IF a = <<>> THEN FALSE
    ELSE IF a[1] # b[1] THEN DigitValue(a[1]) < DigitValue(b[1])
    ELSE IndexLess(Tail(a), Tail(b))

\* 2^32 - 2, the largest array index
MaxArrayIndex == <<"4", "2", "9", "4", "9", "6", "7", "2", "9", "4">>

\* an array-index property key ("0", "1", "10", up to 2^32 - 2):
\* Object.entries lists these first
IsIndexKey(id) ==
    /\ id # <<>>
    /\ \A i \in 1..Len(id) : id[i] \in Digits
    /\ Len(id) > 1 => id[1] # "0"
    /\ ~IndexLess(MaxArrayIndex, id)

\* Object.entries(devices): array-index keys ascending, then the other keys
\* in insertion order; keys are unique
IsEntriesOrder(devices) ==
    /\ \A i, j \in 1..Len(devices) : i # j => devices[i].id # devices[j].id
    /\ \A i, j \in 1..Len(devices) :
          (i < j /\ IsIndexKey(devices[j].id)) =>
              /\ IsIndexKey(devices[i].id)
              /\ IndexLess(devices[i].id, devices[j].id)

\* the properties every object inherits from Object.prototype
ObjectPrototypeKeys ==
    {<<"c", "o", "n", "s", "t", "r", "u", "c", "t", "o", "r">>,
     <<"t", "o", "S", "t", "r", "i", "n", "g">>,
     <<"t", "o", "L", "o", "c", "a", "l", "e", "S", "t", "r", "i", "n", "g">>,
     <<"v", "a", "l", "u", "e", "O", "f">>,
     <<"h", "a", "s", "O", "w", "n", "P", "r", "o", "p", "e", "r", "t", "y">>,
     <<"i", "s", "P", "r", "o", "t", "o", "t", "y", "p", "e", "O", "f">>,
     <<"p", "r", "o", "p", "e", "r", "t", "y", "I", "s", "E", "n", "u", "m",
       "e", "r", "a", "b", "l", "e">>,
     <<"_", "_", "p", "r", "o", "t", "o", "_", "_">>,
     <<"_", "_", "d", "e", "f", "i", "n", "e", "G", "e", "t", "t", "e", "r",
       "_", "_">>,
     <<"_", "_", "d", "e", "f", "i", "n", "e", "S", "e", "t", "t", "e", "r",
       "_", "_">>,
     <<"_", "_", "l", "o", "o", "k", "u", "p", "G", "e", "t", "t", "e", "r",
       "_", "_">>,
     <<"_", "_", "l", "o", "o", "k", "u", "p", "S", "e", "t", "t", "e", "r",
       "_", "_">>}

\* what the property read gave that is no entry of the map
Inherited == -1

\* topology.devices[deviceId], a plain property read: the position of the
\* entry, Inherited when the map has no such entry and Object.prototype has
\* a property of this name (a truthy value), 0 when the read gives undefined
IndexOfDevice(devices, deviceId) ==
    IF \E i \in 1..Len(devices) : devices[i].id = deviceId
    THEN CHOOSE i \in 1..Len(devices) : devices[i].id = deviceId
    ELSE IF deviceId \in ObjectPrototypeKeys THEN Inherited
    ELSE 0

---------------------------------------------------------------------------
(* findTopologyDeviceId: one pass over the entries; for each device the IP *)
(* test, then the substring test, and the first hit returns.               *)

RECURSIVE findFrom(_, _, _)
findFrom(hostname, devices, i) ==
    IF i > Len(devices) THEN null
    ELSE LET device   == devices[i]
             deviceId == device.id
             lowerHostname == toLowerCase(hostname)
         IN  IF device.ip # <<>> /\ device.ip = hostname
             THEN deviceId
             ELSE IF includes(lowerHostname, toLowerCase(deviceId))
             THEN deviceId
             ELSE findFrom(hostname, devices, i + 1)

\* mutant: the device id is compared without lower-casing it
RECURSIVE findFrom_caseSensitiveId(_, _, _)
findFrom_caseSensitiveId(hostname, devices, i) ==
    IF i > Len(devices) THEN null
    ELSE LET device   == devices[i]
             deviceId == device.id
             lowerHostname == toLowerCase(hostname)
         IN  IF device.ip # <<>> /\ device.ip = hostname
             THEN deviceId
             ELSE IF includes(lowerHostname, deviceId)
             THEN deviceId
             ELSE findFrom_caseSensitiveId(hostname, devices, i + 1)

findTopologyDeviceId_caseSensitiveId(hostname, devices) ==
    findFrom_caseSensitiveId(hostname, devices, 1)

findTopologyDeviceId(hostname, devices) == findFrom(hostname, devices, 1)

---------------------------------------------------------------------------
(* nocStore.                                                               *)

NullTopology == [isNull |-> TRUE]

CountStatus(devices, status) ==
    Cardinality({i \in 1..Len(devices) : devices[i].status = status})

\* a topology document as the backend aggregator sends it: the counters are
\* the counts of the device map
Snapshot(devices, activeAlerts) ==
    [devices       |-> devices,
     total_devices |-> Len(devices),
     devices_up    |-> CountStatus(devices, "up"),
     devices_down  |-> CountStatus(devices, "down"),
     active_alerts |-> activeAlerts]

setTopology(t) == t

\* mutant: the old status' counter is never decremented
updateDeviceStatus_noDecrement(topo, deviceId, status) ==
    IF topo = NullTopology THEN topo
    ELSE LET i == IndexOfDevice(topo.devices, deviceId)
         IN  IF i = 0 \/ i = Inherited THEN topo
             ELSE LET oldStatus == topo.devices[i].status
                      changed   == oldStatus # status
                  IN  [topo EXCEPT
                         !.devices[i].status = status,
                         !.devices_up = @ + (IF changed /\ status = "up" THEN 1 ELSE 0),
                         !.devices_down = @ + (IF changed /\ status = "down" THEN 1 ELSE 0)]

\* mutant: the status is written to every device of the map
updateDeviceStatus_allDevices(topo, deviceId, status) ==
    IF topo = NullTopology THEN topo
    ELSE LET i == IndexOfDevice(topo.devices, deviceId)
         IN  IF i = 0 \/ i = Inherited THEN topo
             ELSE LET oldStatus == topo.devices[i].status
                      changed   == oldStatus # status
                  IN  [topo EXCEPT
                         !.devices = [j \in 1..Len(topo.devices) |->
                                         [topo.devices[j] EXCEPT !.status = status]],
                         !.devices_up = @ - (IF changed /\ oldStatus = "up" THEN 1 ELSE 0)
                                          + (IF changed /\ status = "up" THEN 1 ELSE 0),
                         !.devices_down = @ - (IF changed /\ oldStatus = "down" THEN 1 ELSE 0)
                                            + (IF changed /\ status = "down" THEN 1 ELSE 0)]

\* the value read is a function of Object.prototype: its spread has no
\* property, so the new entry holds the status alone (it is the last key of
\* the map); the function's status is undefined, which differs from the new
\* status and is neither 'up' nor 'down'
addInheritedEntry(topo, deviceId, newStatus) ==
    [topo EXCEPT
        !.devices      = Append(@, Device(deviceId, <<>>, newStatus)),
        !.devices_up   = @ + (IF newStatus = "up" THEN 1 ELSE 0),
        !.devices_down = @ + (IF newStatus # "up" /\ newStatus = "down"
                              THEN 1 ELSE 0)]

updateDeviceStatus(topo, deviceId, status) ==
    IF topo = NullTopology THEN topo
    ELSE LET i == IndexOfDevice(topo.devices, deviceId)
         IN  IF i = 0 THEN topo
             ELSE IF i = Inherited THEN addInheritedEntry(topo, deviceId, status)
             ELSE LET device     == topo.devices[i]
                      newStatus  == status
                      oldStatus  == device.status
                      newDevices == [topo.devices EXCEPT ![i].status = newStatus]
                      changed    == oldStatus # newStatus
                      devicesUp  ==
                          topo.devices_up
                          - (IF changed /\ oldStatus = "up" THEN 1 ELSE 0)
                          + (IF changed /\ newStatus = "up" THEN 1 ELSE 0)
                      devicesDown ==
                          topo.devices_down
                          - (IF changed /\ oldStatus # "up" /\ oldStatus = "down"
                             THEN 1 ELSE 0)
                          + (IF changed /\ newStatus # "up" /\ newStatus = "down"
                             THEN 1 ELSE 0)
                  IN  [topo EXCEPT !.devices      = newDevices,
                                   !.devices_up   = devicesUp,
                                   !.devices_down = devicesDown]

---------------------------------------------------------------------------
(* useWebSocket: sockets, the reconnect timers and the keepalive interval. *)
(* A slot holds one WebSocket object from `new WebSocket` until its close  *)
(* event was delivered and the timeout its onclose set has fired or was    *)
(* cleared; after that nothing refers to it and the slot is reused.        *)

Slots == 1..MaxSockets

BaseDelay == 1000
MaxDelay  == 30000

Min(a, b) == IF a < b THEN a ELSE b

\* Math.min(1000 * Math.pow(2, reconnectAttempts.current), 30000)
backoffDelay(attempts) == Min(BaseDelay * (2 ^ attempts), MaxDelay)

\* values of reconnectTimeoutRef.current
NoTimer       == <<>>             \* null
TimerId(s)    == <<s>>            \* the timeout set by the onclose of slot s
StaleTimerId  == <<0>>            \* the id of a timeout that has already fired

IsFree(s) == readyState[s] = "NONE"

FreeSlots == {s \in Slots : IsFree(s)}

MinOf(S) == CHOOSE x \in S : \A y \in S : x <= y

\* the slot is released once its socket is closed and its timeout is gone
Release(rs, tp) ==
    [s \in Slots |-> IF rs[s] = "CLOSED" /\ ~tp[s] THEN "NONE" ELSE rs[s]]

\* connect(): returns at once when wsRef names an OPEN socket; else
\* `new WebSocket(WS_URL)` either gives a socket, which gets its handlers and
\* is stored in wsRef, or throws, which the catch logs: no socket, wsRef as
\* it was, nothing scheduled.  WS_URL is a module constant, so the
\* constructor is given the same address at every call and whether it throws
\* is a fact of the browser the page runs in (constructorThrows), the same
\* for every call.  `rs` is readyState as the caller left it, `fromTimer`
\* tells a retry from the user's or the effect's call.
connect(rs, fromTimer) ==
    IF wsRef # 0 /\ rs[wsRef] = "OPEN"
    THEN /\ wsRef' = wsRef
         /\ readyState' = rs
         /\ viaTimer' = viaTimer
    ELSE IF constructorThrows
    THEN /\ wsRef' = wsRef
         /\ readyState' = rs
         /\ viaTimer' = viaTimer
    ELSE LET ws == MinOf({s \in Slots : rs[s] = "NONE"})
         IN  /\ wsRef' = ws
             /\ readyState' = [rs EXCEPT ![ws] = "CONNECTING"]
             /\ viaTimer' = [viaTimer EXCEPT ![ws] = fromTimer]

\* ws.onopen
onopen(s) ==
    /\ isConnected' = TRUE
    /\ storeConnected' = TRUE
    /\ reconnectAttempts' = 0
    /\ orphanPings' = IF pingIntervalRef # 0 THEN orphanPings + 1 ELSE orphanPings
    /\ pingIntervalRef' = s

\* mutant: after three attempts the reconciler gives up and schedules nothing
onclose_givesUp(s) ==
    /\ isConnected' = FALSE
    /\ storeConnected' = FALSE
    /\ pingIntervalRef' = 0
    /\ IF reconnectAttempts < 3
       THEN /\ timerPending' = [timerPending EXCEPT ![s] = TRUE]
            /\ timerDelay' = [timerDelay EXCEPT ![s] = backoffDelay(reconnectAttempts)]
            /\ reconnectTimeoutRef' = TimerId(s)
            /\ readyState' = [readyState EXCEPT ![s] = "CLOSED"]
       ELSE /\ UNCHANGED <<timerPending, timerDelay, reconnectTimeoutRef>>
            /\ readyState' = [readyState EXCEPT ![s] = "NONE"]
    /\ failedRetries' = IF viaTimer[s] THEN failedRetries + 1 ELSE failedRetries
    /\ viaTimer' = [viaTimer EXCEPT ![s] = FALSE]
    /\ UNCHANGED <<wsRef, reconnectAttempts, orphanPings, wanted, constructorThrows>>

\* ws.onclose
onclose(s) ==
    /\ isConnected' = FALSE
    /\ storeConnected' = FALSE
    /\ pingIntervalRef' = 0
    /\ LET delay == backoffDelay(reconnectAttempts)
       IN  /\ timerPending' = [timerPending EXCEPT ![s] = TRUE]
           /\ timerDelay' = [timerDelay EXCEPT ![s] = delay]
           /\ reconnectTimeoutRef' = TimerId(s)
    /\ readyState' = [readyState EXCEPT ![s] = "CLOSED"]
    /\ failedRetries' = IF viaTimer[s] THEN failedRetries + 1 ELSE failedRetries
    /\ viaTimer' = [viaTimer EXCEPT ![s] = FALSE]
    /\ UNCHANGED <<wsRef, reconnectAttempts, orphanPings, wanted, constructorThrows>>

\* the caller (the mount effect, or a user of the hook) calls connect()
Connect ==
    /\ (wsRef # 0 /\ readyState[wsRef] = "OPEN") \/ constructorThrows \/ FreeSlots # {}
    /\ connect(readyState, FALSE)
    /\ wanted' = TRUE
    /\ UNCHANGED <<isConnected, storeConnected, reconnectAttempts,
                   reconnectTimeoutRef, pingIntervalRef, timerPending,
                   timerDelay, orphanPings, failedRetries, constructorThrows>>
    /\ UNCHANGED <<storeVars, msgVars, pureVars>>

\* disconnect(): the effect's cleanup, or a user of the hook
Disconnect ==
    /\ reconnectAttempts < MaxAttempts
    /\ LET cleared == IF reconnectTimeoutRef # NoTimer /\ reconnectTimeoutRef # StaleTimerId
                      THEN [timerPending EXCEPT ![reconnectTimeoutRef[1]] = FALSE]
                      ELSE timerPending
           closed  == IF wsRef # 0 /\ readyState[wsRef] \in {"CONNECTING", "OPEN"}
                      THEN [readyState EXCEPT ![wsRef] = "CLOSING"]
                      ELSE readyState
       IN  /\ timerPending' = cleared
           /\ timerDelay' = [s \in Slots |-> IF cleared[s] THEN timerDelay[s] ELSE 0]
           /\ readyState' = Release(closed, cleared)
    /\ reconnectTimeoutRef' = NoTimer
    /\ pingIntervalRef' = 0
    /\ wsRef' = 0
    /\ isConnected' = FALSE
    /\ storeConnected' = FALSE
    /\ wanted' = FALSE
    /\ UNCHANGED <<reconnectAttempts, orphanPings, viaTimer, failedRetries,
                   constructorThrows>>
    /\ UNCHANGED <<storeVars, msgVars, pureVars>>

\* the handshake of socket s succeeds: the open event
SocketOpen(s) ==
    /\ readyState[s] = "CONNECTING"
    /\ pingIntervalRef = 0 \/ orphanPings < MaxOrphans
    /\ readyState' = [readyState EXCEPT ![s] = "OPEN"]
    /\ onopen(s)
    /\ viaTimer' = [viaTimer EXCEPT ![s] = FALSE]
    /\ failedRetries' = 0
    /\ UNCHANGED <<wsRef, reconnectTimeoutRef, timerPending, timerDelay, wanted,
                   constructorThrows>>
    /\ UNCHANGED <<storeVars, msgVars, pureVars>>

\* the handshake of socket s fails: error, then the close event
ConnectFail(s) ==
    /\ readyState[s] = "CONNECTING"
    /\ reconnectAttempts < MaxAttempts
    /\ onclose(s)
    /\ UNCHANGED <<storeVars, msgVars, pureVars>>

\* the server or the network closes the open socket s: the close event
RemoteClose(s) ==
    /\ readyState[s] = "OPEN"
    /\ onclose(s)
    /\ UNCHANGED <<storeVars, msgVars, pureVars>>

\* the close event of a socket that disconnect() closed
LocalCloseDone(s) ==
    /\ readyState[s] = "CLOSING"
    /\ onclose(s)
    /\ UNCHANGED <<storeVars, msgVars, pureVars>>

\* the timeout set by the onclose of slot t fires
TimerFire(t) ==
    /\ timerPending[t]
    /\ timerPending' = [timerPending EXCEPT ![t] = FALSE]
    /\ timerDelay' = [timerDelay EXCEPT ![t] = 0]
    /\ reconnectTimeoutRef' =
          IF reconnectTimeoutRef = TimerId(t) THEN StaleTimerId ELSE reconnectTimeoutRef
    /\ reconnectAttempts' = reconnectAttempts + 1
    /\ connect(Release(readyState, [timerPending EXCEPT ![t] = FALSE]), TRUE)
    /\ UNCHANGED <<isConnected, storeConnected, pingIntervalRef, orphanPings,
                   wanted, failedRetries, constructorThrows>>
    /\ UNCHANGED <<storeVars, msgVars, pureVars>>

---------------------------------------------------------------------------
(* The state after construction: the stores' initial values and the hook's *)
(* refs before the mount effect has run.                                   *)

\* a parsed text frame: its type and the arrays it may carry; has... tells an
\* array that is present (possibly empty) from an absent field
Frame(type) ==
    [type        |-> type,
     hasChanges  |-> FALSE, changes   |-> <<>>,
     hasAlerts   |-> FALSE, alerts    |-> <<>>,
     hasAlertIds |-> FALSE, alert_ids |-> <<>>]

NoFrame  == Frame("none")
NoLookup == [done |-> FALSE]
NoLayout == [nodes |-> <<>>, expanded |-> {}, runs |-> 0,
             iteration |-> 0, hasOverlap |-> FALSE]
NoOverlap == [done |-> FALSE]
NoProjection == [phase |-> "none"]
NoCanvas == [mounted |-> FALSE]
NoMapping == [done |-> FALSE]
NoLoader == [started |-> FALSE]

InitStore ==
    /\ topology = NullTopology
    /\ alerts = <<>>
    /\ toasts = <<>>
    /\ criticalOverlay = <<>>
    /\ removals = <<>>
    /\ now = 0

\* the hook's refs and state before the mount effect has run
InitHook ==
    /\ isConnected = FALSE
    /\ storeConnected = FALSE
    /\ wsRef = 0
    /\ reconnectAttempts = 0
    /\ reconnectTimeoutRef = NoTimer
    /\ pingIntervalRef = 0
    /\ readyState = [s \in Slots |-> "NONE"]
    /\ viaTimer = [s \in Slots |-> FALSE]
    /\ timerPending = [s \in Slots |-> FALSE]
    /\ timerDelay = [s \in Slots |-> 0]
    /\ orphanPings = 0
    /\ wanted = FALSE
    /\ failedRetries = 0

\* where connect() is never called the constructor's behaviour plays no part
InitConn ==
    /\ InitHook
    /\ constructorThrows = FALSE

InitOthers ==
    /\ frame = NoFrame
    /\ pc = "idle"
    /\ lookup = NoLookup
    /\ layout = NoLayout
    /\ overlap = NoOverlap
    /\ projection = NoProjection
    /\ canvas = NoCanvas
    /\ mapping = NoMapping /\ loader = NoLoader

Init ==
    /\ InitStore
    /\ InitConn
    /\ InitOthers

\* the page in a browser whose constructor returns a socket for WS_URL, or in
\* one whose constructor throws
ConnInit ==
    /\ InitStore
    /\ InitHook
    /\ constructorThrows \in BOOLEAN
    /\ InitOthers

---------------------------------------------------------------------------
(* The connection life cycle on its own.                                   *)

ConnNext ==
    \/ Connect
    \/ Disconnect
    \/ \E s \in Slots : SocketOpen(s)
    \/ \E s \in Slots : ConnectFail(s)
    \/ \E s \in Slots : RemoteClose(s)
    \/ \E s \in Slots : LocalCloseDone(s)
    \/ \E t \in Slots : TimerFire(t)

ConnSpec == ConnInit /\ [][ConnNext]_vars

\* a timeout that is pending fires
ConnFairSpec == ConnSpec /\ WF_vars(\E t \in Slots : TimerFire(t))

TypeOKConn ==
    /\ wsRef \in 0..MaxSockets
    /\ wsRef # 0 => readyState[wsRef] # "NONE"
    /\ pingIntervalRef # 0 => readyState[pingIntervalRef] = "OPEN"
    /\ \A s \in Slots : timerPending[s] => readyState[s] = "CLOSED"
    /\ \A s \in Slots : readyState[s] = "CLOSED" => timerPending[s]
    /\ reconnectTimeoutRef \notin {NoTimer, StaleTimerId} => timerPending[reconnectTimeoutRef[1]]
    /\ reconnectAttempts <= MaxAttempts + MaxSockets

---------------------------------------------------------------------------
(* alertStore, and nocStore.updateAlertCount.  The operations are written  *)
(* over a record of the stores' fields, so that handleMessage can chain    *)
(* them.                                                                   *)

Store(topo, al, to, ov) ==
    [topology |-> topo, alerts |-> al, toasts |-> to, criticalOverlay |-> ov]

Alert(id, deviceId, severity, message, status, timestamp) ==
    [id |-> id, device_id |-> deviceId, severity |-> severity,
     message |-> message, status |-> status, timestamp |-> timestamp]

\* `toast-${alert.id}-${Date.now()}`
ToastId(alertId, clock) == [alert |-> alertId, at |-> clock]

Toast(alert, clock) ==
    [id |-> ToastId(alert.id, clock), alert |-> alert, dismissed |-> FALSE]

ToastCap == 5

\* Array.prototype.slice(0, n)
slice0(q, n) == SubSeq(q, 1, Min(n, Len(q)))

setAlerts(st, list) == [st EXCEPT !.alerts = list]

\* mutant: the list is not cut to the cap
addToast_noCap(st, alert, clock) ==
    LET toast == Toast(alert, clock)
    IN  [st EXCEPT !.toasts = <<toast>> \o st.toasts]

addToast(st, alert, clock) ==
    LET toast     == Toast(alert, clock)
        newToasts == slice0(<<toast>> \o st.toasts, ToastCap)
    IN  [st EXCEPT !.toasts = newToasts]

clearToasts(st) == [st EXCEPT !.toasts = <<>>]

setCriticalOverlay(st, alert) == [st EXCEPT !.criticalOverlay = <<alert>>]

clearCriticalOverlay(st) == [st EXCEPT !.criticalOverlay = <<>>]

addAlert(st, alert, clock) ==
    LET listed  == [st EXCEPT !.alerts = <<alert>> \o st.alerts]
        toasted == addToast(listed, alert, clock)
    IN  IF alert.severity = "critical"
        THEN setCriticalOverlay(toasted, alert)
        ELSE toasted

\* mutant: the filter is inverted, only the named alert is kept
removeAlert_keepsNamed(st, alertId) ==
    [st EXCEPT !.alerts = SelectSeq(st.alerts, LAMBDA a : a.id = alertId)]

removeAlert(st, alertId) ==
    [st EXCEPT !.alerts = SelectSeq(st.alerts, LAMBDA a : a.id # alertId)]

acknowledgeAlert(st, alertId) ==
    LET marked ==
            [st EXCEPT !.alerts =
                [i \in 1..Len(st.alerts) |->
                    IF st.alerts[i].id = alertId
                    THEN [st.alerts[i] EXCEPT !.status = "acknowledged"]
                    ELSE st.alerts[i]]]
    IN  IF st.criticalOverlay # <<>> /\ st.criticalOverlay[1].id = alertId
        THEN [marked EXCEPT !.criticalOverlay = <<>>]
        ELSE marked

\* mutant: every toast of the list is marked
dismissToast_marksAll(st, toastId) ==
    [st EXCEPT !.toasts =
        [i \in 1..Len(st.toasts) |-> [st.toasts[i] EXCEPT !.dismissed = TRUE]]]

\* dismissToast, synchronous part: the toast is marked
dismissToast(st, toastId) ==
    [st EXCEPT !.toasts =
        [i \in 1..Len(st.toasts) |->
            IF st.toasts[i].id = toastId
            THEN [st.toasts[i] EXCEPT !.dismissed = TRUE]
            ELSE st.toasts[i]]]

\* dismissToast, the callback of its setTimeout(..., 300)
dismissToastTimeout(st, toastId) ==
    [st EXCEPT !.toasts = SelectSeq(st.toasts, LAMBDA t : t.id # toastId)]

Max(a, b) == IF a > b THEN a ELSE b

\* mutant: the counter is not clamped at zero
updateAlertCount_noClamp(topo, delta) ==
    IF topo = NullTopology THEN topo
    ELSE [topo EXCEPT !.active_alerts = topo.active_alerts + delta]

\* nocStore.updateAlertCount
updateAlertCount(topo, delta) ==
    IF topo = NullTopology THEN topo
    ELSE [topo EXCEPT !.active_alerts = Max(0, topo.active_alerts + delta)]

---------------------------------------------------------------------------
(* mapSeverity and String(number).                                         *)

mapSeverity_caseSensitive(sev) ==
    IF sev = <<"c", "r", "i", "t", "i", "c", "a", "l">> \/ sev = <<"a", "l", "e", "r", "t">>
    THEN "critical"
    ELSE IF sev = <<"w", "a", "r", "n", "i", "n", "g">> \/ sev = <<"w", "a", "r", "n">>
    THEN "warning"
    ELSE IF sev = <<"o", "k">> \/ sev = <<"r", "e", "c", "o", "v", "e", "r", "y">>
    THEN "recovery"
    ELSE "info"

mapSeverity(sev) ==
    LET lower == toLowerCase(sev)
    IN  IF lower = <<"c", "r", "i", "t", "i", "c", "a", "l">>
           \/ lower = <<"a", "l", "e", "r", "t">>
        THEN "critical"
        ELSE IF lower = <<"w", "a", "r", "n", "i", "n", "g">>
                \/ lower = <<"w", "a", "r", "n">>
        THEN "warning"
        ELSE IF lower = <<"o", "k">>
                \/ lower = <<"r", "e", "c", "o", "v", "e", "r", "y">>
        THEN "recovery"
        ELSE "info"

DigitChar(d) ==
    CASE d = 0 -> "0" [] d = 1 -> "1" [] d = 2 -> "2" [] d = 3 -> "3"
      [] d = 4 -> "4" [] d = 5 -> "5" [] d = 6 -> "6" [] d = 7 -> "7"
      [] d = 8 -> "8" [] OTHER -> "9"

\* String(n) for a natural number n
RECURSIVE String(_)
String(n) ==
    IF n < 10 THEN <<DigitChar(n)>>
    ELSE Append(String(n \div 10), DigitChar(n % 10))

---------------------------------------------------------------------------
(* ws.onmessage and handleMessage.                                         *)

\* a text frame that JSON.parse rejects
UnparseableFrame == Frame("unparseable")

\* {type: "device_status_change", changes: [...]}
StatusFrame(changes) ==
    [Frame("device_status_change") EXCEPT !.hasChanges = TRUE, !.changes = changes]

\* {type: "device_status_change"} without the changes field
StatusFrameNoChanges == Frame("device_status_change")

\* one entry of `changes`; old_status is only logged
Change(hostname, newStatus) == [hostname |-> hostname, new_status |-> newStatus]

\* mutant: an entry that resolves to no device ends the loop
RECURSIVE statusChangeLoop_stopsAtUnresolved(_, _, _)
statusChangeLoop_stopsAtUnresolved(snapshot, cur, changes) ==
    IF changes = <<>> THEN cur
    ELSE LET change == Head(changes)
         IN  IF change.hostname = Undefined THEN cur
             ELSE LET deviceId == findTopologyDeviceId(change.hostname, snapshot.devices)
                  IN  IF deviceId = null THEN cur
                      ELSE statusChangeLoop_stopsAtUnresolved(
                               snapshot,
                               updateDeviceStatus(cur, deviceId, change.new_status),
                               Tail(changes))

\* the for-loop over `changes`.  `snapshot` is the topology read once at the
\* top of handleMessage (it resolves every hostname), `cur` the store's
\* topology, which updateDeviceStatus reads and writes.  An entry without a
\* hostname makes hostname.toLowerCase() throw: the loop ends there and the
\* entries applied so far stay applied.
RECURSIVE statusChangeLoop(_, _, _)
statusChangeLoop(snapshot, cur, changes) ==
    IF changes = <<>> THEN cur
    ELSE LET change == Head(changes)
         IN  IF change.hostname = Undefined THEN cur
             ELSE LET deviceId == findTopologyDeviceId(change.hostname, snapshot.devices)
                  IN  statusChangeLoop(
                          snapshot,
                          IF deviceId # null
                          THEN updateDeviceStatus(cur, deviceId, change.new_status)
                          ELSE cur,
                          Tail(changes))

\* {type: "new_alerts", alerts: [...]}
NewAlertsFrame(entries) ==
    [Frame("new_alerts") EXCEPT !.hasAlerts = TRUE, !.alerts = entries]

\* {type: "alerts_resolved", alert_ids: [...]}
AlertsResolvedFrame(ids) ==
    [Frame("alerts_resolved") EXCEPT !.hasAlertIds = TRUE, !.alert_ids = ids]

\* one entry of `alerts` (LibreNMSAlert); timestamp <<>> is an absent one
LibreNMSAlert(id, deviceId, hostname, severity, title, timestamp) ==
    [id |-> id, device_id |-> deviceId, hostname |-> hostname,
     severity |-> severity, title |-> title, timestamp |-> timestamp]

\* new Date().toISOString()
IsoNow == <<"n", "o", "w">>

\* the for-loop over `alerts`.  `snapshot` is the topology read at the top of
\* handleMessage, `st` the stores.  An entry without hostname or severity
\* throws (toLowerCase of undefined): the loop ends there, keeping what the
\* earlier entries did, and `threw` tells that the code after the loop is
\* skipped.  addAlert's addToast reads Date.now() once for every entry:
\* `clocks` holds the readings, one per entry.
RECURSIVE newAlertsLoop(_, _, _, _)
newAlertsLoop(snapshot, st, entries, clocks) ==
    IF entries = <<>> THEN [st |-> st, threw |-> FALSE]
    ELSE LET alert == Head(entries)
         IN  IF alert.hostname = Undefined \/ alert.severity = Undefined
             THEN [st |-> st, threw |-> TRUE]
             ELSE LET deviceId == findTopologyDeviceId(alert.hostname, snapshot.devices)
                      mappedAlert ==
                          Alert(String(alert.id),
                                IF deviceId # null THEN deviceId
                                                   ELSE String(alert.device_id),
                                mapSeverity(alert.severity),
                                alert.title,
                                "active",
                                IF alert.timestamp # <<>> THEN alert.timestamp
                                                          ELSE IsoNow)
                  IN  newAlertsLoop(snapshot, addAlert(st, mappedAlert, Head(clocks)),
                                    Tail(entries), Tail(clocks))

\* the for-loop over `alert_ids`
RECURSIVE alertsResolvedLoop(_, _)
alertsResolvedLoop(st, alertIds) ==
    IF alertIds = <<>> THEN st
    ELSE alertsResolvedLoop(removeAlert(st, String(Head(alertIds))), Tail(alertIds))

\* mutant: the greeting of a (re)connected stream empties the alert list
handleMessage_greetingResets(message, st, clocks) ==
    CASE message.type = "connected" -> [st EXCEPT !.alerts = <<>>]
      [] message.type = "device_status_change" ->
            IF ~message.hasChanges \/ st.topology = NullTopology
            THEN st
            ELSE [st EXCEPT !.topology =
                     statusChangeLoop(st.topology, st.topology, message.changes)]
      [] message.type = "new_alerts" ->
            IF ~message.hasAlerts \/ st.topology = NullTopology
            THEN st
            ELSE LET r == newAlertsLoop(st.topology, st, message.alerts, clocks)
                 IN  IF r.threw THEN r.st
                     ELSE [r.st EXCEPT !.topology =
                              updateAlertCount(r.st.topology, Len(message.alerts))]
      [] message.type = "alerts_resolved" ->
            IF ~message.hasAlertIds
            THEN st
            ELSE LET removed == alertsResolvedLoop(st, message.alert_ids)
                 IN  [removed EXCEPT !.topology =
                         updateAlertCount(removed.topology, 0 - Len(message.alert_ids))]
      [] OTHER -> st

\* handleMessage(message): the stores after the call; `clocks` are the
\* values Date.now() has at the entries of a new-alerts batch
handleMessage(message, st, clocks) ==
    CASE message.type = "device_status_change" ->
            IF ~message.hasChanges \/ st.topology = NullTopology
            THEN st
            ELSE [st EXCEPT !.topology =
                     statusChangeLoop(st.topology, st.topology, message.changes)]
      [] message.type = "new_alerts" ->
            IF ~message.hasAlerts \/ st.topology = NullTopology
            THEN st
            ELSE LET r == newAlertsLoop(st.topology, st, message.alerts, clocks)
                 IN  IF r.threw THEN r.st
                     ELSE [r.st EXCEPT !.topology =
                              updateAlertCount(r.st.topology, Len(message.alerts))]
      [] message.type = "alerts_resolved" ->
            IF ~message.hasAlertIds
            THEN st
            ELSE LET removed == alertsResolvedLoop(st, message.alert_ids)
                 IN  [removed EXCEPT !.topology =
                         updateAlertCount(removed.topology, 0 - Len(message.alert_ids))]
      [] OTHER -> st

\* ws.onmessage: JSON.parse and handleMessage inside one try/catch
onmessage(data, st, clocks) ==
    IF data.type = "unparseable" THEN st ELSE handleMessage(data, st, clocks)

\* the entries of a batch that reach addAlert: those before the first one
\* that throws
RECURSIVE wellFormedPrefix(_)
wellFormedPrefix(entries) ==
    IF entries = <<>> THEN 0
    ELSE IF Head(entries).hostname = Undefined \/ Head(entries).severity = Undefined
         THEN 0
         ELSE 1 + wellFormedPrefix(Tail(entries))

\* the number of times onmessage(data) reads Date.now(): once in the
\* addToast of every addAlert
clockReads(data, st) ==
    IF data.type = "new_alerts" /\ data.hasAlerts /\ st.topology # NullTopology
    THEN wellFormedPrefix(data.alerts)
    ELSE 0

\* what Date.now() may return at n successive calls that start at `from`:
\* the clock does not go back, and it may advance between two calls
RECURSIVE ClockReadings(_, _)
ClockReadings(from, n) ==
    IF n = 0 THEN {<<>>}
    ELSE UNION { {<<t>> \o rest : rest \in ClockReadings(t, n - 1)} :
                     t \in from..Max(from, MaxTicks) }

---------------------------------------------------------------------------
(* Inputs of the stream specification.                                     *)

\* the devices a snapshot may hold: id and IP
StoreIdentities ==
    { [id |-> <<"a">>,      ip |-> <<"1", ".", "1">>],
      [id |-> <<"A", "1">>, ip |-> <<>>],
      [id |-> <<"1">>,      ip |-> <<".", "1">>] }

\* sequences over S of length 0..n
RECURSIVE SeqsUpTo(_, _)
SeqsUpTo(S, n) ==
    IF n = 0 THEN {<<>>}
    ELSE LET shorter == SeqsUpTo(S, n - 1)
         IN  shorter \cup {Append(q, x) : q \in {t \in shorter : Len(t) = n - 1},
                                          x \in S}

StoreDevices ==
    {Device(d.id, d.ip, st) : d \in StoreIdentities, st \in Statuses}

StoreSnapshots ==
    {Snapshot(ds, 0) : ds \in {q \in SeqsUpTo(StoreDevices, MaxDevices) : IsEntriesOrder(q)}}

\* hostnames the monitoring system reports, and an absent hostname
StoreHosts == {<<"1", ".", "1">>, <<"A">>, <<".">>, Undefined}

StoreChanges == {Change(h, st) : h \in StoreHosts, st \in Statuses}

Frames ==
    {UnparseableFrame, StatusFrameNoChanges}
        \cup {StatusFrame(b) : b \in SeqsUpTo(StoreChanges, MaxBatch)}

---------------------------------------------------------------------------
(* The stream specification: snapshots replace the topology, frames arrive *)
(* on an open socket and are handled one at a time.                        *)

\* App.loadTopology: fetchTopology() resolved, setTopology(topology)
SetTopology ==
    /\ pc = "idle"
    /\ \E t \in StoreSnapshots : topology' = setTopology(t)
    /\ UNCHANGED <<alerts, toasts, criticalOverlay, removals, now, connVars,
                   msgVars, pureVars>>

\* the transport delivers a text frame on an open socket
Receive ==
    /\ pc = "idle"
    /\ \E s \in Slots : readyState[s] = "OPEN"
    /\ \E f \in Frames : frame' = f
    /\ pc' = "dispatch"
    /\ UNCHANGED <<storeVars, connVars, pureVars>>

\* ws.onmessage runs to completion; the clock may advance while it runs
OnMessage ==
    /\ pc = "dispatch"
    /\ \E clocks \in ClockReadings(now, clockReads(frame,
                                 Store(topology, alerts, toasts, criticalOverlay))) :
          LET after == onmessage(frame, Store(topology, alerts, toasts, criticalOverlay),
                                 clocks)
          IN  /\ topology' = after.topology
              /\ alerts' = after.alerts
              /\ toasts' = after.toasts
              /\ criticalOverlay' = after.criticalOverlay
              /\ now' = IF clocks = <<>> THEN now ELSE clocks[Len(clocks)]
    /\ pc' = "done"
    /\ UNCHANGED <<removals, connVars, frame, pureVars>>

\* the handler has returned to the event loop
Return ==
    /\ pc = "done"
    /\ pc' = "idle"
    /\ frame' = NoFrame
    /\ UNCHANGED <<storeVars, connVars, pureVars>>

Next ==
    \/ (pc = "idle" /\ wsRef = 0 /\ Connect)
    \/ \E s \in Slots : (pc = "idle" /\ SocketOpen(s))
    \/ SetTopology
    \/ Receive
    \/ OnMessage
    \/ Return

Spec == ConnInit /\ [][Next]_vars

---------------------------------------------------------------------------
(* The alert specification: the same delivery of frames, with new-alerts   *)
(* and alerts-resolved batches, the periodic alert fetch, and the user's   *)
(* acknowledge, dismiss-toast and dismiss-overlay actions.                 *)

AlertDevices == <<Device(<<"a">>, <<"1", ".", "1">>, "up")>>

AlertSnapshots == {Snapshot(AlertDevices, 1)}

AlertTitle == <<"t">>

AlertStamp == <<"T">>

ForeignDeviceId == 7

\* the entries a batch may carry: a critical alert of a device the topology
\* knows by IP, a warning of a host it does not know, and an entry that
\* lacks its hostname
AlertEntries ==
    { LibreNMSAlert(1, ForeignDeviceId, <<"1", ".", "1">>,
                    <<"A", "l", "e", "r", "t">>, AlertTitle, AlertStamp),
      LibreNMSAlert(2, ForeignDeviceId, <<".">>,
                    <<"W", "A", "R", "N">>, AlertTitle, AlertStamp),
      LibreNMSAlert(1, ForeignDeviceId, Undefined,
                    <<"W", "A", "R", "N">>, AlertTitle, AlertStamp) }

AlertNumbers == {1, 2}

\* the frames of the alert specification
AlertFrames ==
    {NewAlertsFrame(b) : b \in SeqsUpTo(AlertEntries, MaxBatch)}
        \cup {AlertsResolvedFrame(b) : b \in SeqsUpTo(AlertNumbers, MaxBatch)}
        \cup {Frame("new_alerts"), Frame("alerts_resolved"),
              Frame("pong"), Frame("speedtest_result"), Frame("connected"),
              Frame("mystery"), UnparseableFrame,
              StatusFrame(<<Change(<<"1", ".", "1">>, "up")>>)}

\* GET /alerts: alert summaries the backend may return
FetchedAlerts ==
    { <<>>,
      <<Alert(<<"1">>, <<"a">>, "critical", AlertTitle, "acknowledged", AlertStamp)>>,
      <<Alert(<<"3">>, <<"a">>, "warning", AlertTitle, "active", AlertStamp)>> }

\* App.loadTopology, with the snapshots of the alert specification
LoadTopology ==
    /\ pc = "idle"
    /\ \E t \in AlertSnapshots : topology' = setTopology(t)
    /\ UNCHANGED <<alerts, toasts, criticalOverlay, removals, now, connVars,
                   msgVars, pureVars>>

\* the transport delivers a frame of the alert specification
ReceiveAlertFrame ==
    /\ pc = "idle"
    /\ \E s \in Slots : readyState[s] = "OPEN"
    /\ \E f \in AlertFrames :
          /\ Len(alerts) + Len(f.alerts) <= MaxAlerts
          /\ Len(toasts) + Len(f.alerts) <= MaxAlerts
          /\ topology # NullTopology =>
                 topology.active_alerts + Len(f.alerts) <= MaxCount
          /\ frame' = f
    /\ pc' = "dispatch"
    /\ UNCHANGED <<storeVars, connVars, pureVars>>

\* useAlerts.loadAlerts: fetchAlerts() resolved, setAlerts(alertList)
LoadAlerts ==
    /\ pc = "idle"
    /\ \E list \in FetchedAlerts :
          alerts' = setAlerts(Store(topology, alerts, toasts, criticalOverlay), list).alerts
    /\ UNCHANGED <<topology, toasts, criticalOverlay, removals, now, connVars,
                   msgVars, pureVars>>

\* ids of the alerts the user sees: in the list, in a toast, in the overlay
ShownAlertIds ==
    {alerts[i].id : i \in 1..Len(alerts)}
        \cup {toasts[i].alert.id : i \in 1..Len(toasts)}
        \cup {criticalOverlay[i].id : i \in 1..Len(criticalOverlay)}

\* useAlerts.acknowledgeAlert: the API call succeeded, the store action runs
AcknowledgeAlert(alertId) ==
    /\ pc = "idle"
    /\ alertId \in ShownAlertIds
    /\ LET after == acknowledgeAlert(Store(topology, alerts, toasts, criticalOverlay),
                                     alertId)
       IN  /\ alerts' = after.alerts
           /\ criticalOverlay' = after.criticalOverlay
    /\ UNCHANGED <<topology, toasts, removals, now, connVars, msgVars, pureVars>>

\* CriticalOverlay: the user dismisses the overlay
ClearCriticalOverlay ==
    /\ pc = "idle"
    /\ criticalOverlay # <<>>
    /\ criticalOverlay' =
          clearCriticalOverlay(Store(topology, alerts, toasts, criticalOverlay)).criticalOverlay
    /\ UNCHANGED <<topology, alerts, toasts, removals, now, connVars, msgVars, pureVars>>

\* dismissToast(toastId): the toast is marked and its removal is scheduled
DismissToast(toastId) ==
    /\ pc = "idle"
    /\ Len(removals) < MaxRemovals
    /\ \E i \in 1..Len(toasts) : toasts[i].id = toastId
    /\ toasts' = dismissToast(Store(topology, alerts, toasts, criticalOverlay),
                              toastId).toasts
    /\ removals' = Append(removals, toastId)
    /\ UNCHANGED <<topology, alerts, criticalOverlay, now, connVars, msgVars, pureVars>>

\* the timeout of the oldest pending dismissToast fires (equal delays fire
\* in the order they were set)
DismissTimeout ==
    /\ pc = "idle"
    /\ removals # <<>>
    /\ toasts' = dismissToastTimeout(Store(topology, alerts, toasts, criticalOverlay),
                                     Head(removals)).toasts
    /\ removals' = Tail(removals)
    /\ UNCHANGED <<topology, alerts, criticalOverlay, now, connVars, msgVars, pureVars>>

\* a millisecond passes
Tick ==
    /\ pc = "idle"
    /\ now' = now + 1
    /\ UNCHANGED <<topology, alerts, toasts, criticalOverlay, removals, connVars,
                   msgVars, pureVars>>

ToastIdsShown == {toasts[i].id : i \in 1..Len(toasts)}

AlertNext ==
    \/ (pc = "idle" /\ wsRef = 0 /\ Connect)
    \/ \E s \in Slots : (pc = "idle" /\ SocketOpen(s))
    \/ LoadTopology
    \/ ReceiveAlertFrame
    \/ OnMessage
    \/ Return
    \/ LoadAlerts
    \/ \E id \in ShownAlertIds : AcknowledgeAlert(id)
    \/ ClearCriticalOverlay
    \/ \E id \in ToastIdsShown : DismissToast(id)
    \/ DismissTimeout

AlertSpec == Init /\ [][AlertNext]_vars

---------------------------------------------------------------------------
(* The toast specification: the alert store driven through addAlert and    *)
(* dismissToast, with the removal timeouts and the clock.                  *)

\* the alert that is added, again and again; its toasts differ by the
\* millisecond of their creation
ToastAlerts ==
    { Alert(<<"1">>, <<"a">>, "critical", AlertTitle, "active", AlertStamp) }

\* useAlertStore.addAlert(alert), as handleMessage calls it
AddAlert(alert) ==
    /\ pc = "idle"
    /\ Len(alerts) < MaxAdds
    /\ LET after == addAlert(Store(topology, alerts, toasts, criticalOverlay), alert, now)
       IN  /\ alerts' = after.alerts
           /\ toasts' = after.toasts
           /\ criticalOverlay' = after.criticalOverlay
    /\ UNCHANGED <<topology, removals, now, connVars, msgVars, pureVars>>

\* clearToasts(): the list is emptied; pending removal timeouts stay set
ClearToasts ==
    /\ pc = "idle"
    /\ toasts' = clearToasts(Store(topology, alerts, toasts, criticalOverlay)).toasts
    /\ UNCHANGED <<topology, alerts, criticalOverlay, removals, now, connVars,
                   msgVars, pureVars>>

ToastNext ==
    \/ \E a \in ToastAlerts : AddAlert(a)
    \/ \E id \in ToastIdsShown : DismissToast(id)
    \/ DismissTimeout
    \/ ClearToasts
    \/ (now < MaxTicks /\ Tick)

ToastSpec == Init /\ [][ToastNext]_vars

\* a timeout that was set fires
ToastFairSpec == ToastSpec /\ WF_vars(DismissTimeout)

---------------------------------------------------------------------------
(* Claims about the connection life cycle.                                 *)

Live(s) == readyState[s] \in {"CONNECTING", "OPEN"}

PingActive == pingIntervalRef # 0 \/ orphanPings > 0

\* C1: after disconnect(), and until connect() is called again, no reconnect
\* timer is pending and no retry connection is being opened; in particular
\* the close event of the socket that disconnect() closed schedules nothing.
C1_TeardownIsFinal ==
    ~wanted => \A s \in Slots :
                  /\ ~timerPending[s]
                  /\ ~(viaTimer[s] /\ readyState[s] = "CONNECTING")

\* C3: every close event schedules a reconnect timer; where the browser's
\* constructor returns a socket for WS_URL, so that a connection attempt
\* fails by a close event, the reconciler has, while no disconnect was
\* requested, always a live socket or a pending reconnect timer, whatever the
\* number of failures so far; and from a state without a live socket a
\* connection attempt is eventually made.
C3_NeverStranded ==
    (wanted /\ ~constructorThrows) => \/ \E s \in Slots : Live(s)
                                      \/ \E s \in Slots : timerPending[s]

C3_CloseSchedules ==
    \A s \in Slots :
        (readyState[s] \in {"CONNECTING", "OPEN", "CLOSING"} /\ readyState'[s] = "CLOSED")
            => (timerPending'[s] /\ reconnectTimeoutRef' = TimerId(s))

C3_Reconnects ==
    /\ []C3_NeverStranded
    /\ [][C3_CloseSchedules]_vars
    /\ (wanted /\ ~constructorThrows /\ ~\E s \in Slots : Live(s))
           ~> (~wanted \/ \E s \in Slots : Live(s))

\* C3 witness: the network has failed five retries in a row, no disconnect
\* was requested, and the next retry is scheduled
C3_Witness ==
    /\ wanted
    /\ ~constructorThrows
    /\ failedRetries >= 5
    /\ ~\E s \in Slots : Live(s)
    /\ \E s \in Slots : timerPending[s]

\* in a browser whose constructor throws the catch of connect() schedules
\* nothing: connect() was called, and there is no socket and no timer
C3_ConstructorThrew ==
    /\ wanted
    /\ constructorThrows
    /\ ~\E s \in Slots : Live(s)
    /\ ~\E s \in Slots : timerPending[s]

\* C4: the delay of a timer scheduled at a close is min(1000 * 2^k, 30000)
\* for k the number of reconnect attempts that failed since the last
\* successful open, and a fired timer increments the attempt counter by one.
C4_DelayOfFailures ==
    [][/\ \A s \in Slots :
              (timerPending'[s] /\ ~timerPending[s]) =>
                  timerDelay'[s] = (IF 1000 * (2 ^ failedRetries') < 30000
                                    THEN 1000 * (2 ^ failedRetries') ELSE 30000)
       /\ (\E t \in Slots : TimerFire(t)) => reconnectAttempts' = reconnectAttempts + 1
      ]_vars

\* C5: connected implies the attempt counter is 0 and a keepalive timer is
\* active; disconnected implies no keepalive timer is active.
C5_ConnectedState ==
    /\ isConnected => (reconnectAttempts = 0 /\ PingActive)
    /\ ~isConnected => ~PingActive

---------------------------------------------------------------------------
(* Claims about status-change batches and the topology counters.           *)

\* the step in which ws.onmessage handles the delivered frame
HandlesFrame == pc = "dispatch" /\ pc' = "done"

IsStatusBatch(f) == f.type = "device_status_change" /\ f.hasChanges

Bit(b) == IF b THEN 1 ELSE 0

\* C2: after any sequence of status changes and replacements of the topology
\* by consistent snapshots, devices_up and devices_down are the numbers of
\* devices whose status is up and down.
C2_CountersMatchDevices ==
    topology # NullTopology =>
        /\ topology.devices_up = CountStatus(topology.devices, "up")
        /\ topology.devices_down = CountStatus(topology.devices, "down")

\* C2 witness: a batch has just moved a device that was counted to "unknown"
\* and another one to "down"
C2_Witness ==
    /\ pc = "done"
    /\ IsStatusBatch(frame)
    /\ topology # NullTopology
    /\ Len(topology.devices) = 2
    /\ Len(frame.changes) = 2
    /\ frame.changes[1].new_status = "unknown"
    /\ frame.changes[2].new_status = "down"
    /\ topology.devices[1].status = "down"
    /\ topology.devices[2].status = "unknown"

\* C6: a single entry that resolves to device d sets d's status to the
\* entry's new status and changes no other device; when the status changed,
\* the old status' counter (up or down) loses one and the new status'
\* counter (up or down) gains one, else both counters keep their values.
C6_EntryEffect ==
    LET e   == frame.changes[1]
        d   == findTopologyDeviceId(e.hostname, topology.devices)
        i   == IndexOfDevice(topology.devices, d)
        old == topology.devices[i].status
        new == e.new_status
    IN  (/\ HandlesFrame
         /\ IsStatusBatch(frame)
         /\ Len(frame.changes) = 1
         /\ topology # NullTopology
         /\ e.hostname # Undefined
         /\ d # null)
        => /\ Len(topology'.devices) = Len(topology.devices)
           /\ topology'.devices[i] = [topology.devices[i] EXCEPT !.status = new]
           /\ \A j \in 1..Len(topology.devices) :
                 j # i => topology'.devices[j] = topology.devices[j]
           /\ IF old # new
              THEN /\ topology'.devices_up =
                         topology.devices_up - Bit(old = "up") + Bit(new = "up")
                   /\ topology'.devices_down =
                         topology.devices_down - Bit(old = "down") + Bit(new = "down")
              ELSE /\ topology'.devices_up = topology.devices_up
                   /\ topology'.devices_down = topology.devices_down

C6_StatusEntryApplied == [][C6_EntryEffect]_vars

\* C6 witness: the scenario of the specification, scaled to two devices: one
\* entry took a device from up to down, leaving devices_up = 1,
\* devices_down = 1
C6_Witness ==
    /\ pc = "done"
    /\ IsStatusBatch(frame)
    /\ Len(frame.changes) = 1
    /\ frame.changes[1] = Change(<<"1", ".", "1">>, "down")
    /\ topology # NullTopology
    /\ Len(topology.devices) = 2
    /\ topology.devices[1].id = <<"a">>
    /\ topology.devices[1].status = "down"
    /\ topology.devices[2].status = "up"
    /\ topology.devices_up = 1
    /\ topology.devices_down = 1

\* the entries of a batch that resolve to a device, in batch order
C7_Resolved(changes, devices) ==
    SelectSeq(changes, LAMBDA e : findTopologyDeviceId(e.hostname, devices) # null)

\* the topology after applying resolvable entries one after the other
RECURSIVE C7_ApplyInOrder(_, _, _)
C7_ApplyInOrder(topo, devices, entries) ==
    IF entries = <<>> THEN topo
    ELSE C7_ApplyInOrder(
             updateDeviceStatus(topo,
                                findTopologyDeviceId(Head(entries).hostname, devices),
                                Head(entries).new_status),
             devices, Tail(entries))

\* C7: in a batch whose entries all carry a hostname, an entry that resolves
\* to no device changes nothing and every other entry is applied, in batch
\* order.
C7_BatchEffect ==
    (/\ HandlesFrame
     /\ IsStatusBatch(frame)
     /\ topology # NullTopology
     /\ \A k \in 1..Len(frame.changes) : frame.changes[k].hostname # Undefined)
    => /\ topology' = C7_ApplyInOrder(topology, topology.devices,
                                      C7_Resolved(frame.changes, topology.devices))
       /\ UNCHANGED <<alerts, toasts, criticalOverlay>>

C7_UnresolvedEntryDropped == [][C7_BatchEffect]_vars

\* C7 witness: the first entry resolved to nothing, the second one was applied
C7_Witness ==
    /\ pc = "done"
    /\ IsStatusBatch(frame)
    /\ Len(frame.changes) = 2
    /\ frame.changes[1] = Change(<<".">>, "down")
    /\ frame.changes[2] = Change(<<"A">>, "degraded")
    /\ topology # NullTopology
    /\ Len(topology.devices) = 2
    /\ topology.devices[1].id = <<"a">>
    /\ topology.devices[1].status = "degraded"
    /\ topology.devices[2].status = "up"

\* a frame that does not parse, or that lacks an expected field
C8_Malformed(f) ==
    \/ f.type = "unparseable"
    \/ f.type = "device_status_change" /\ ~f.hasChanges
    \/ /\ IsStatusBatch(f)
       /\ \E k \in 1..Len(f.changes) : f.changes[k].hostname = Undefined

\* C8: a malformed frame is dropped as a whole: the stores and the
\* connection are the same after it as before it.
C8_MalformedDropped ==
    [][(HandlesFrame /\ C8_Malformed(frame)) => UNCHANGED <<storeVars, connVars>>]_vars

---------------------------------------------------------------------------
(* Identity resolution on its own: a device map and a hostname are drawn,  *)
(* and findTopologyDeviceId is called once.                                *)

FindIds == {<<"a">>, <<"A">>, <<"1">>, <<"é">>}

FindIps == {<<>>, <<"1", ".", "1">>, <<"a">>}

FindDevices == {Device(id, ip, "up") : id \in FindIds, ip \in FindIps}

\* the device of the specification's examples: {id: "cat-1", ip: "10.0.0.5"}
ExampleId == <<"c", "a", "t", "-", "1">>

ExampleIp == <<"1", "0", ".", "0", ".", "0", ".", "5">>

ExampleDevices == <<Device(ExampleId, ExampleIp, "up")>>

\* "cat-1.lan.example.com"
ExampleFqdn ==
    ExampleId \o <<".", "l", "a", "n", ".", "e", "x", "a", "m", "p", "l", "e",
                   ".", "c", "o", "m">>

\* "unrelated-host"
ExampleUnrelated ==
    <<"u", "n", "r", "e", "l", "a", "t", "e", "d", "-", "h", "o", "s", "t">>

FindDeviceMaps ==
    {q \in SeqsUpTo(FindDevices, MaxDevices) : IsEntriesOrder(q)} \cup {ExampleDevices}

FindHosts == StringsUpTo(MaxHostLen) \cup {ExampleIp, ExampleFqdn, ExampleUnrelated}

FindInit ==
    /\ topology \in {Snapshot(ds, 0) : ds \in FindDeviceMaps}
    /\ alerts = <<>>
    /\ toasts = <<>>
    /\ criticalOverlay = <<>>
    /\ removals = <<>>
    /\ now = 0
    /\ InitConn
    /\ frame = NoFrame
    /\ pc = "idle"
    /\ lookup = NoLookup
    /\ layout = NoLayout
    /\ overlap = NoOverlap
    /\ projection = NoProjection
    /\ canvas = NoCanvas
    /\ mapping = NoMapping /\ loader = NoLoader

\* one call findTopologyDeviceId(hostname, topology.devices)
Lookup(hostname) ==
    /\ ~lookup.done
    /\ lookup' = [done     |-> TRUE,
                  hostname |-> hostname,
                  result   |-> findTopologyDeviceId(hostname, topology.devices)]
    /\ UNCHANGED <<storeVars, connVars, msgVars, layout, overlap, projection, canvas, mapping, loader>>

FindNext == \E h \in FindHosts : Lookup(h)

FindSpec == FindInit /\ [][FindNext]_vars

\* the two rules of identity resolution, stated on one device
IpRule(device, hostname) == device.ip # <<>> /\ device.ip = hostname

IdRule(device, hostname) ==
    \E i, j \in 1..Len(hostname) :
        /\ j - i + 1 = Len(device.id)
        /\ \A k \in 1..Len(device.id) :
              toLowerChar(hostname[i + k - 1]) = toLowerChar(device.id[k])

\* C9: whenever some device's IP equals the string, the result is a device
\* whose IP equals it, whatever ids earlier devices have.
C9_IpMatchWins ==
    (/\ lookup.done
     /\ \E i \in 1..Len(topology.devices) : IpRule(topology.devices[i], lookup.hostname))
    => \E i \in 1..Len(topology.devices) :
          /\ topology.devices[i].id = lookup.result
          /\ IpRule(topology.devices[i], lookup.hostname)

\* C10: the result is absent exactly when no device matches by IP equality or
\* by case-insensitive containment of its id; a returned id belongs to a
\* device that matches by one of the two rules; and for {id: cat-1,
\* ip: 10.0.0.5} the strings "10.0.0.5" and "cat-1.lan.example.com" give
\* cat-1 and "unrelated-host" gives absent.
C10_AbsentIffNoMatch ==
    lookup.done =>
        LET ds == topology.devices
            h  == lookup.hostname
            r  == lookup.result
        IN  /\ (r = null) <=>
                   (\A i \in 1..Len(ds) : ~IpRule(ds[i], h) /\ ~IdRule(ds[i], h))
            /\ r # null =>
                   \E i \in 1..Len(ds) :
                       ds[i].id = r /\ (IpRule(ds[i], h) \/ IdRule(ds[i], h))
            /\ ds = ExampleDevices =>
                   /\ h = ExampleIp => r = ExampleId
                   /\ h = ExampleFqdn => r = ExampleId
                   /\ h = ExampleUnrelated => r = null

\* C10 witness: "cat-1.lan.example.com" was resolved to cat-1
C10_Witness ==
    /\ lookup.done
    /\ topology.devices = ExampleDevices
    /\ lookup.hostname = ExampleFqdn
    /\ lookup.result = ExampleId

---------------------------------------------------------------------------
(* Claims about alerts.                                                    *)

IsNewAlertsBatch(f) == f.type = "new_alerts" /\ f.hasAlerts

IsResolvedBatch(f) == f.type = "alerts_resolved" /\ f.hasAlertIds

\* every entry of the batch carries the fields the handler reads
EntriesComplete(f) ==
    \A k \in 1..Len(f.alerts) :
        f.alerts[k].hostname # Undefined /\ f.alerts[k].severity # Undefined

\* the alert the specification builds from a batch entry
C11_AlertOf(e, topo) ==
    LET resolved == IF topo = NullTopology THEN null
                    ELSE findTopologyDeviceId(e.hostname, topo.devices)
    IN  Alert(String(e.id),
              IF resolved # null THEN resolved ELSE String(e.device_id),
              mapSeverity(e.severity), e.title, "active", e.timestamp)

C11_EntryEffect ==
    (HandlesFrame /\ IsNewAlertsBatch(frame) /\ EntriesComplete(frame)) =>
        /\ Len(alerts') = Len(alerts) + Len(frame.alerts)
        /\ \A k \in 1..Len(frame.alerts) :
              LET a == C11_AlertOf(frame.alerts[k], topology)
              IN  /\ \E i \in 1..Len(alerts') : alerts'[i] = a
                  /\ \E i \in 1..Len(toasts') : toasts'[i].alert = a
                  /\ a.severity = "critical" =>
                         /\ criticalOverlay' # <<>>
                         /\ criticalOverlay'[1].severity = "critical"
                         /\ \E j \in k..Len(frame.alerts) :
                               criticalOverlay'[1] = C11_AlertOf(frame.alerts[j], topology)

\* C11: for every entry of a new-alerts batch, in whatever state the message
\* arrives, an active alert is added to the alert store with a toast, and
\* the critical overlay is replaced when the mapped severity is critical;
\* the alert's device id is the resolved topology device id or, when
\* resolution fails, the entry's numeric device id as a string.
C11_EveryEntryAdded == [][C11_EntryEffect]_vars

C12_NonNegative == topology # NullTopology => topology.active_alerts >= 0

C12_CountEffect ==
    (HandlesFrame /\ topology # NullTopology) =>
        /\ (IsNewAlertsBatch(frame) /\ EntriesComplete(frame)) =>
               topology'.active_alerts = topology.active_alerts + Len(frame.alerts)
        /\ IsResolvedBatch(frame) =>
               topology'.active_alerts =
                   (IF topology.active_alerts >= Len(frame.alert_ids)
                    THEN topology.active_alerts - Len(frame.alert_ids)
                    ELSE 0)

\* C12: a new-alerts batch of n entries raises the active-alert counter by n,
\* an alerts-resolved batch of n ids lowers it by n but not below zero, and
\* the counter is never negative.
C12_AlertCounter == []C12_NonNegative /\ [][C12_CountEffect]_vars

\* C12 witness: an alerts-resolved batch of two ids was handled with fewer
\* than two alerts counted, and the counter stands at zero
C12_Witness ==
    /\ pc = "done"
    /\ IsResolvedBatch(frame)
    /\ Len(frame.alert_ids) = 2
    /\ Len(alerts) = 1
    /\ topology # NullTopology
    /\ topology.active_alerts = 0

CountId(list, id) == Cardinality({i \in 1..Len(list) : list[i].id = id})

\* the alerts-resolved batch being handled names the id
NamedResolved(id) ==
    /\ HandlesFrame
    /\ IsResolvedBatch(frame)
    /\ \E k \in 1..Len(frame.alert_ids) : String(frame.alert_ids[k]) = id

C13_StaysUntilResolved ==
    \A i \in 1..Len(alerts) :
        LET id == alerts[i].id
        IN  IF NamedResolved(id)
            THEN CountId(alerts', id) = 0
            ELSE CountId(alerts', id) >= CountId(alerts, id)

\* C13: an alert stays in the store until an alerts-resolved message names
\* its id, and is removed then; no other operation deletes an alert.
C13_OnlyResolutionDeletes == [][C13_StaysUntilResolved]_vars

\* C13 as amended: the periodic alert fetch, which replaces the list, is the
\* one other operation that may delete an alert.
C13_OnlyResolutionOrFetchDeletes ==
    [][LoadAlerts \/ C13_StaysUntilResolved]_vars

\* C13 witness: a batch that named alert 1 was handled; alert 2 is still in
\* the store, acknowledged, and alert 1 is gone
C13_Witness ==
    /\ pc = "done"
    /\ IsResolvedBatch(frame)
    /\ frame.alert_ids = <<1>>
    /\ Len(alerts) = 1
    /\ alerts[1].id = <<"2">>
    /\ alerts[1].status = "acknowledged"

\* the newest alert of the list that is critical and not acknowledged
NewestActiveCritical ==
    LET S == {i \in 1..Len(alerts) :
                 alerts[i].severity = "critical" /\ alerts[i].status = "active"}
    IN  IF S = {} THEN <<>> ELSE <<alerts[MinOf(S)]>>

\* C14: the overlay holds at most one alert; when set, that alert is
\* critical, unacknowledged and the most recent such alert of the store.
C14_OverlayIsNewestCritical ==
    /\ Len(criticalOverlay) <= 1
    /\ criticalOverlay # <<>> =>
          /\ criticalOverlay[1].severity = "critical"
          /\ criticalOverlay[1].status = "active"
          /\ criticalOverlay = NewestActiveCritical

QuietTypes == {"speedtest_result", "pong", "connected", "mystery"}

\* C17: a speed-test result, a keepalive response, a greeting or a message
\* of an unrecognized type leaves topology, alerts, toasts, overlay and the
\* connection unchanged.
C17_QuietMessages ==
    [][(HandlesFrame /\ frame.type \in QuietTypes)
          => UNCHANGED <<topology, alerts, toasts, criticalOverlay, connVars>>]_vars

\* C17 witness: a greeting was handled while the stores held a topology, an
\* alert, a toast and a critical overlay
C17_Witness ==
    /\ pc = "done"
    /\ frame.type = "connected"
    /\ topology # NullTopology
    /\ alerts # <<>>
    /\ toasts # <<>>
    /\ criticalOverlay # <<>>

---------------------------------------------------------------------------
(* Claims about toasts.                                                    *)

\* q is p with some elements left out
RECURSIVE IsSubSeq(_, _)
IsSubSeq(q, p) ==
    IF q = <<>> THEN TRUE
    ELSE IF p = <<>> THEN FALSE
    ELSE IF Head(q) = Head(p) THEN IsSubSeq(Tail(q), Tail(p))
    ELSE IsSubSeq(q, Tail(p))

ToastAlertsOf(ts) == [i \in 1..Len(ts) |-> ts[i].alert]

\* at most five toasts, newest first: creation times do not increase along
\* the list, and the toasts' alerts come in the order of the alert list
\* (which is newest first)
C15_CapAndOrder ==
    /\ Len(toasts) <= 5
    /\ \A i, j \in 1..Len(toasts) : i < j => toasts[i].id.at >= toasts[j].id.at
    /\ IsSubSeq(ToastAlertsOf(toasts), alerts)

\* an addAlert step puts the new toast first and keeps the four newest of
\* the toasts there were
C15_AddEffect ==
    Len(alerts') = Len(alerts) + 1 =>
        toasts' = <<[id |-> [alert |-> alerts'[1].id, at |-> now],
                     alert |-> alerts'[1], dismissed |-> FALSE]>>
                  \o SubSeq(toasts, 1, Min(4, Len(toasts)))

\* C15: after any sequence of addAlert and dismissToast the toast list holds
\* at most 5 toasts, newest first; a sixth addAlert leaves the 5 most recent
\* and the oldest is gone from the list.
C15_ToastCap == []C15_CapAndOrder /\ [][C15_AddEffect]_vars

\* C15 witness: six alerts were added, the first in millisecond 0 and five
\* in millisecond 1; the list holds the five toasts of millisecond 1 and the
\* toast of millisecond 0 is gone
C15_Witness ==
    /\ Len(alerts) = 6
    /\ removals = <<>>
    /\ now = 1
    /\ Len(toasts) = 5
    /\ \A i \in 1..5 : toasts[i].id.at = 1 /\ ~toasts[i].dismissed

ToastIdSpace == {ToastId(a.id, t) : a \in ToastAlerts, t \in 0..(MaxTicks + 1)}

HasToast(id) == \E i \in 1..Len(toasts) : toasts[i].id = id

HasDismissed(id) == \E i \in 1..Len(toasts) : toasts[i].id = id /\ toasts[i].dismissed

\* the dismissToast(id) step marks the toasts of that id and no other, and
\* removes none
C16_DismissEffect ==
    \A id \in ToastIdSpace :
        removals' = Append(removals, id) =>
            /\ Len(toasts') = Len(toasts)
            /\ \A i \in 1..Len(toasts) :
                  toasts'[i] = IF toasts[i].id = id
                               THEN [toasts[i] EXCEPT !.dismissed = TRUE]
                               ELSE toasts[i]

\* the timeout of dismissToast(id) removes the toasts of that id and no other
C16_TimeoutEffect ==
    (removals # <<>> /\ removals' = Tail(removals)) =>
        toasts' = SelectSeq(toasts, LAMBDA t : t.id # Head(removals))

\* C16: dismissToast(id) marks exactly the toast with that id and leaves it in
\* the list; the toast is eventually removed; no other toast is marked or
\* removed by it, also when toasts are added during the delay.
C16_DismissThenRemove ==
    /\ [][C16_DismissEffect /\ C16_TimeoutEffect]_vars
    /\ \A id \in ToastIdSpace : HasDismissed(id) ~> ~HasToast(id)

\* C16 witness: the toast made in millisecond 0 is dismissed and its removal
\* is pending, while two toasts made in millisecond 1 are in the list,
\* not dismissed
C16_Witness ==
    /\ Len(toasts) = 3
    /\ toasts[1].id.at = 1 /\ ~toasts[1].dismissed
    /\ toasts[2].id.at = 1 /\ ~toasts[2].dismissed
    /\ toasts[3].id.at = 0 /\ toasts[3].dismissed
    /\ removals = <<toasts[3].id>>


---------------------------------------------------------------------------
(* TopologyCanvas: geometry of the nodes and the overlap resolver.         *)

MaxNodes  == 3        \* nodes in a projected node list
MaxCoord  == 2        \* largest x / y of a generated bounding box
MaxExtent == 2        \* largest width / height of a generated bounding box

NODE_SIZES ==
    [cluster   |-> [width |-> 180, height |-> 120],
     device    |-> [width |-> 160, height |-> 80],
     external  |-> [width |-> 140, height |-> 100],
     vlanGroup |-> [width |-> 220, height |-> 150]]

PADDING == 40

maxIterations == 50

NoClusterId == ""     \* data.clusterId is undefined

Node(id, type, clusterId, x, y) ==
    [id |-> id, type |-> type, clusterId |-> clusterId,
     position |-> [x |-> x, y |-> y]]

BoundingBox(id, clusterId, x, y, width, height, right, bottom) ==
    [id |-> id, clusterId |-> clusterId, x |-> x, y |-> y,
     width |-> width, height |-> height, right |-> right, bottom |-> bottom]

\* NODE_SIZES[node.type || 'cluster'] || NODE_SIZES.cluster
nodeSize(type) ==
    IF type \in DOMAIN NODE_SIZES THEN NODE_SIZES[type] ELSE NODE_SIZES.cluster

getNodeBoundingBox(node) ==
    LET size == nodeSize(node.type)
    IN  BoundingBox(node.id, node.clusterId,
                    node.position.x - PADDING,
                    node.position.y - PADDING,
                    size.width + PADDING * 2,
                    size.height + PADDING * 2,
                    node.position.x + size.width + PADDING,
                    node.position.y + size.height + PADDING)

boxesOverlap_strict(a, b) ==
    ~(a.right <= b.x \/ b.right <= a.x \/ a.bottom <= b.y \/ b.bottom <= a.y)

boxesOverlap(a, b) ==
    ~(a.right < b.x \/ b.right < a.x \/ a.bottom < b.y \/ b.bottom < a.y)

calculatePushVector_noPadding(a, b) ==
    LET overlapX  == Min(a.right, b.right) - Max(a.x, b.x)
        overlapY  == Min(a.bottom, b.bottom) - Max(a.y, b.y)
    IN  IF overlapX < overlapY
        THEN LET direction == IF 2 * b.x + b.width > 2 * a.x + a.width THEN 1 ELSE -1
             IN  [x |-> overlapX * direction, y |-> 0]
        ELSE LET direction == IF 2 * b.y + b.height > 2 * a.y + a.height THEN 1 ELSE -1
             IN  [x |-> 0, y |-> overlapY * direction]

\* The centres a.x + a.width / 2 are compared doubled, to stay in the integers.
calculatePushVector(a, b) ==
    LET overlapX  == Min(a.right, b.right) - Max(a.x, b.x)
        overlapY  == Min(a.bottom, b.bottom) - Max(a.y, b.y)
        aCenterX2 == 2 * a.x + a.width
        aCenterY2 == 2 * a.y + a.height
        bCenterX2 == 2 * b.x + b.width
        bCenterY2 == 2 * b.y + b.height
    IN  IF overlapX < overlapY
        THEN LET direction == IF bCenterX2 > aCenterX2 THEN 1 ELSE -1
             IN  [x |-> overlapX * direction + PADDING * direction, y |-> 0]
        ELSE LET direction == IF bCenterY2 > aCenterY2 THEN 1 ELSE -1
             IN  [x |-> 0, y |-> overlapY * direction + PADDING * direction]

\* position.x += push.x; position.y += push.y
pushed(node, push) ==
    [node EXCEPT !.position = [x |-> @.x + push.x, y |-> @.y + push.y]]

\* keys of the Map clusterDeviceBoxes, in insertion order, over boxes[1..n]
RECURSIVE clusterKeys(_, _)
clusterKeys(boxes, n) ==
    IF n = 0 THEN <<>>
    ELSE LET keys == clusterKeys(boxes, n - 1)
             c    == boxes[n].clusterId
         IN  IF c = NoClusterId \/ \E k \in 1..Len(keys) : keys[k] = c
             THEN keys
             ELSE Append(keys, c)

MaxOf(S) == CHOOSE x \in S : \A y \in S : x >= y

\* the aggregate box of one expanded cluster
expandedClusterBound(boxes, clusterId) ==
    LET deviceBoxes == {boxes[k] : k \in {i \in 1..Len(boxes) : boxes[i].clusterId = clusterId}}
        minX      == MinOf({b.x : b \in deviceBoxes})
        minY      == MinOf({b.y : b \in deviceBoxes})
        maxRight  == MaxOf({b.right : b \in deviceBoxes})
        maxBottom == MaxOf({b.bottom : b \in deviceBoxes})
    IN  BoundingBox(clusterId, NoClusterId, minX, minY,
                    maxRight - minX, maxBottom - minY, maxRight, maxBottom)

\* A pass carries  st = [result, hasOverlap]; the boxes are those computed at
\* the start of the pass.

\* body of the inner loop over j: node i against node j
nodePairStep_noFlag(st, boxes, i, j) ==
    IF st.result[j].type = "device" THEN st
    ELSE IF boxesOverlap(boxes[i], boxes[j])
         THEN [st EXCEPT !.result[j] =
                   pushed(@, calculatePushVector(boxes[i], boxes[j]))]
         ELSE st

nodePairStep(st, boxes, i, j) ==
    IF st.result[j].type = "device" THEN st
    ELSE IF boxesOverlap(boxes[i], boxes[j])
         THEN [result     |-> [st.result EXCEPT ![j] =
                                 pushed(@, calculatePushVector(boxes[i], boxes[j]))],
               hasOverlap |-> TRUE]
         ELSE st

RECURSIVE nodePairInner(_, _, _, _)
nodePairInner(st, boxes, i, j) ==
    IF j > Len(st.result) THEN st
    ELSE nodePairInner(nodePairStep(st, boxes, i, j), boxes, i, j + 1)

RECURSIVE nodePairs(_, _, _, _)
nodePairs(st, boxes, expandedClusterIds, i) ==
    IF i > Len(st.result) THEN st
    ELSE LET nodeA == st.result[i]
             skip  == \/ nodeA.type = "device"
                      \/ (nodeA.type = "cluster" /\ nodeA.id \in expandedClusterIds)
         IN  nodePairs(IF skip THEN st ELSE nodePairInner(st, boxes, i, i + 1),
                       boxes, expandedClusterIds, i + 1)

\* body of the loop over the nodes: one aggregate box against node i
clusterNodeStep_noFlag(st, boxes, clusterBound, i) ==
    IF st.result[i].type = "device" THEN st
    ELSE IF boxesOverlap(clusterBound, boxes[i])
         THEN [st EXCEPT !.result[i] =
                   pushed(@, calculatePushVector(clusterBound, boxes[i]))]
         ELSE st

clusterNodeStep(st, boxes, clusterBound, i) ==
    IF st.result[i].type = "device" THEN st
    ELSE IF boxesOverlap(clusterBound, boxes[i])
         THEN [result     |-> [st.result EXCEPT ![i] =
                                 pushed(@, calculatePushVector(clusterBound, boxes[i]))],
               hasOverlap |-> TRUE]
         ELSE st

RECURSIVE clusterNodeInner(_, _, _, _)
clusterNodeInner(st, boxes, clusterBound, i) ==
    IF i > Len(st.result) THEN st
    ELSE clusterNodeInner(clusterNodeStep(st, boxes, clusterBound, i),
                          boxes, clusterBound, i + 1)

RECURSIVE clusterNodes(_, _, _, _)
clusterNodes(st, boxes, bounds, k) ==
    IF k > Len(bounds) THEN st
    ELSE clusterNodes(clusterNodeInner(st, boxes, bounds[k], 1), boxes, bounds, k + 1)

clusterPairStep_firstOnly(st, bounds, i, j) ==
    IF boxesOverlap(bounds[i], bounds[j])
    THEN LET push == calculatePushVector(bounds[i], bounds[j])
         IN  [result     |-> [n \in 1..Len(st.result) |->
                                 IF /\ st.result[n].type = "device"
                                    /\ st.result[n].clusterId = bounds[j].id
                                    /\ \A k \in 1..(n - 1) :
                                          ~(/\ st.result[k].type = "device"
                                            /\ st.result[k].clusterId = bounds[j].id)
                                 THEN pushed(st.result[n], push)
                                 ELSE st.result[n]],
              hasOverlap |-> TRUE]
    ELSE st

\* aggregate box i against aggregate box j: all devices of cluster j move
clusterPairStep(st, bounds, i, j) ==
    IF boxesOverlap(bounds[i], bounds[j])
    THEN LET push == calculatePushVector(bounds[i], bounds[j])
         IN  [result     |-> [n \in 1..Len(st.result) |->
                                 IF /\ st.result[n].type = "device"
                                    /\ st.result[n].clusterId = bounds[j].id
                                 THEN pushed(st.result[n], push)
                                 ELSE st.result[n]],
              hasOverlap |-> TRUE]
    ELSE st

RECURSIVE clusterPairInner(_, _, _, _)
clusterPairInner(st, bounds, i, j) ==
    IF j > Len(bounds) THEN st
    ELSE clusterPairInner(clusterPairStep(st, bounds, i, j), bounds, i, j + 1)

RECURSIVE clusterPairs(_, _, _)
clusterPairs(st, bounds, i) ==
    IF i > Len(bounds) THEN st
    ELSE clusterPairs(clusterPairInner(st, bounds, i, i + 1), bounds, i + 1)

\* one pass of the while loop
resolvePass(result, expandedClusterIds) ==
    LET boxes  == [i \in 1..Len(result) |-> getNodeBoundingBox(result[i])]
        keys   == clusterKeys(boxes, Len(boxes))
        bounds == [k \in 1..Len(keys) |-> expandedClusterBound(boxes, keys[k])]
        s0     == [result |-> result, hasOverlap |-> FALSE]
        s1     == nodePairs(s0, boxes, expandedClusterIds, 1)
        s2     == clusterNodes(s1, boxes, bounds, 1)
    IN  clusterPairs(s2, bounds, 1)

RECURSIVE resolveLoop_extraPass(_, _, _, _)
resolveLoop_extraPass(result, expandedClusterIds, iteration, hasOverlap) ==
    IF (hasOverlap \/ iteration < 2) /\ iteration < maxIterations
    THEN LET after == resolvePass(result, expandedClusterIds)
         IN  resolveLoop_extraPass(after.result, expandedClusterIds, iteration + 1,
                                   after.hasOverlap)
    ELSE [result |-> result, iteration |-> iteration, hasOverlap |-> hasOverlap]

RECURSIVE resolveLoop(_, _, _, _)
resolveLoop(result, expandedClusterIds, iteration, hasOverlap) ==
    IF hasOverlap /\ iteration < maxIterations
    THEN LET after == resolvePass(result, expandedClusterIds)
         IN  resolveLoop(after.result, expandedClusterIds, iteration + 1,
                         after.hasOverlap)
    ELSE [result |-> result, iteration |-> iteration, hasOverlap |-> hasOverlap]

\* The returned node list, with the loop's iteration and hasOverlap at exit.
resolveOverlaps(nodes, expandedClusterIds) ==
    resolveLoop(nodes, expandedClusterIds, 0, TRUE)

---------------------------------------------------------------------------
(* Layout specification: a projected node list, resolved once and again.   *)

\* what topologyToNodes emits: collapsed clusters, external endpoints and the
\* devices of expanded clusters
NodeKinds ==
    {[type |-> "cluster",  clusterId |-> NoClusterId],
     [type |-> "external", clusterId |-> NoClusterId],
     [type |-> "device",   clusterId |-> "x"],
     [type |-> "device",   clusterId |-> "y"]}

NodePositions == {<<0, 0>>, <<130, 0>>, <<260, 0>>}

NodeIds == <<"n1", "n2", "n3", "n4">>

NodeList(n, kinds, at) ==
    [i \in 1..n |-> Node(NodeIds[i], kinds[i].type, kinds[i].clusterId,
                         at[i][1], at[i][2])]

ExpandedOf(nodes) ==
    {nodes[i].clusterId : i \in {k \in 1..Len(nodes) : nodes[k].type = "device"}}

InitRest ==
    /\ InitStore
    /\ InitConn
    /\ frame = NoFrame
    /\ pc = "idle"
    /\ lookup = NoLookup

LayoutInit ==
    /\ InitRest
    /\ overlap = NoOverlap
    /\ projection = NoProjection
    /\ canvas = NoCanvas
    /\ mapping = NoMapping /\ loader = NoLoader
    /\ \E n \in 1..MaxNodes :
          \E kinds \in [1..n -> NodeKinds], at \in [1..n -> NodePositions] :
             LET nodes == NodeList(n, kinds, at)
             IN  layout = [nodes |-> nodes, expanded |-> ExpandedOf(nodes),
                           runs |-> 0, iteration |-> 0, hasOverlap |-> FALSE]

\* nodes = resolveOverlaps(nodes, expandedClusters)
ResolveLayout ==
    /\ layout.runs < 2
    /\ LET run == resolveOverlaps(layout.nodes, layout.expanded)
       IN  layout' = [nodes      |-> run.result,
                      expanded   |-> layout.expanded,
                      runs       |-> layout.runs + 1,
                      iteration  |-> run.iteration,
                      hasOverlap |-> run.hasOverlap]
    /\ UNCHANGED <<storeVars, connVars, msgVars, lookup, overlap, projection, canvas, mapping, loader>>

LayoutNext == ResolveLayout

LayoutSpec == LayoutInit /\ [][LayoutNext]_vars

---------------------------------------------------------------------------
(* Geometry specification: boxesOverlap on two boxes.                      *)

Box(x, y, width, height) ==
    BoundingBox("", NoClusterId, x, y, width, height, x + width, y + height)

Boxes ==
    {Box(x, y, w, h) : x \in 0..MaxCoord, y \in 0..MaxCoord,
                       w \in 1..MaxExtent, h \in 1..MaxExtent}

GeometryInit ==
    /\ InitRest
    /\ layout = NoLayout
    /\ overlap = NoOverlap
    /\ projection = NoProjection
    /\ canvas = NoCanvas
    /\ mapping = NoMapping /\ loader = NoLoader

\* boxesOverlap(a, b) and boxesOverlap(b, a)
Overlap(a, b) ==
    /\ ~overlap.done
    /\ overlap' = [done |-> TRUE, a |-> a, b |-> b,
                   ab |-> boxesOverlap(a, b), ba |-> boxesOverlap(b, a)]
    /\ UNCHANGED <<storeVars, connVars, msgVars, lookup, layout, projection, canvas, mapping, loader>>

GeometryNext == \E a \in Boxes, b \in Boxes : Overlap(a, b)

GeometrySpec == GeometryInit /\ [][GeometryNext]_vars

---------------------------------------------------------------------------
(* Claims about the layout.                                                *)

NodeBoxes == [i \in 1..Len(layout.nodes) |-> getNodeBoundingBox(layout.nodes[i])]

SameExpandedCluster(a, b) ==
    a.type = "device" /\ b.type = "device" /\ a.clusterId = b.clusterId

Separated ==
    \A i \in 1..Len(layout.nodes), j \in 1..Len(layout.nodes) :
        (i # j /\ ~SameExpandedCluster(layout.nodes[i], layout.nodes[j]))
            => ~boxesOverlap(NodeBoxes[i], NodeBoxes[j])

Resolved == layout.runs >= 1

\* the loop left by a pass that found nothing to push
Settled == Resolved /\ ~layout.hasOverlap

\* C18 as stated: for every input, in the output of resolveOverlaps no two
\* nodes that are not devices of the same expanded cluster have overlapping
\* bounding boxes.
C18_OutputSeparated == Resolved => Separated

\* C18, amended: when resolveOverlaps left its loop after a pass without a
\* push, no two nodes of its output that are not devices of the same expanded
\* cluster have overlapping bounding boxes.
C18_SettledOutputSeparated == Settled => Separated

\* an output that took pushes in two passes, with devices and other nodes
C18_Witness ==
    /\ layout.runs = 1
    /\ ~layout.hasOverlap
    /\ layout.iteration >= 3
    /\ Len(layout.nodes) = 3
    /\ \E i \in 1..3 : layout.nodes[i].type = "device"
    /\ \E i \in 1..3 : layout.nodes[i].type # "device"
    /\ Separated

C19_SecondRunIdle ==
    /\ layout'.nodes = layout.nodes
    /\ layout'.iteration = 1
    /\ ~layout'.hasOverlap

\* C19 as stated: resolveOverlaps on the output of a previous run, with the
\* same expanded set, changes no position, and its first pass pushes nothing.
C19_Idempotent ==
    [][(ResolveLayout /\ layout.runs = 1) => C19_SecondRunIdle]_vars

\* C19, amended: when the previous run left its loop after a pass without a
\* push, resolveOverlaps on its output, with the same expanded set, changes no
\* position, and its first pass pushes nothing.
C19_IdempotentWhenSettled ==
    [][(ResolveLayout /\ layout.runs = 1 /\ ~layout.hasOverlap)
          => C19_SecondRunIdle]_vars

\* the second run done on an output that the first run had to push into place
C19_Witness ==
    /\ layout.runs = 2
    /\ layout.iteration = 1
    /\ ~layout.hasOverlap
    /\ Len(layout.nodes) = 3
    /\ \E i \in 1..3 : layout.nodes[i].position \notin
           {[x |-> p[1], y |-> p[2]] : p \in NodePositions}

\* the closed rectangles share a point
SharePoint(a, b) ==
    \E px \in 0..(MaxCoord + MaxExtent), py \in 0..(MaxCoord + MaxExtent) :
        /\ a.x <= px /\ px <= a.right /\ a.y <= py /\ py <= a.bottom
        /\ b.x <= px /\ px <= b.right /\ b.y <= py /\ py <= b.bottom

\* the rectangles share a region of positive width and height
ShareArea(a, b) ==
    /\ Max(a.x, b.x) < Min(a.right, b.right)
    /\ Max(a.y, b.y) < Min(a.bottom, b.bottom)

\* C20 as stated: boxesOverlap(a, b) is true exactly when the boxes intersect
\* with positive extent on both axes (boxes that merely touch do not overlap),
\* and the test is symmetric.
C20_OverlapIsStrict ==
    overlap.done =>
        /\ overlap.ab <=> ShareArea(overlap.a, overlap.b)
        /\ overlap.ab <=> overlap.ba

\* C20, amended: boxesOverlap(a, b) is true exactly when the two closed boxes
\* share at least one point, so boxes that touch along an edge or at a corner
\* do overlap; the test is symmetric.
C20_OverlapIsClosed ==
    overlap.done =>
        /\ overlap.ab <=> SharePoint(overlap.a, overlap.b)
        /\ overlap.ab <=> overlap.ba

\* two boxes that touch at one corner only
C20_Witness ==
    /\ overlap.done
    /\ overlap.a.right = overlap.b.x
    /\ overlap.a.bottom = overlap.b.y
    /\ overlap.ab
    /\ overlap.ba

---------------------------------------------------------------------------
(* Push specification: calculatePushVector on two overlapping boxes.       *)

PushCoords  == {0, 50, 100}
PushExtents == {50, 150, 250}

PushBoxes ==
    {Box(x, y, w, h) : x \in PushCoords, y \in PushCoords,
                       w \in PushExtents, h \in PushExtents}

\* position.x += push.x; position.y += push.y, seen on the node's box
movedBox(b, push) ==
    [b EXCEPT !.x = @ + push.x, !.y = @ + push.y,
              !.right = @ + push.x, !.bottom = @ + push.y]

\* if (boxesOverlap(a, b)) { const push = calculatePushVector(a, b); b += push }
Push(a, b) ==
    /\ ~overlap.done
    /\ boxesOverlap(a, b)
    /\ LET push == calculatePushVector(a, b)
       IN  overlap' = [done |-> TRUE, a |-> a, b |-> b, push |-> push,
                       after |-> movedBox(b, push)]
    /\ UNCHANGED <<storeVars, connVars, msgVars, lookup, layout, projection, canvas, mapping, loader>>

PushNext == \E a \in PushBoxes, b \in PushBoxes : Push(a, b)

PushSpec == GeometryInit /\ [][PushNext]_vars

---------------------------------------------------------------------------
(* Claims about the push vector.                                           *)

Abs(n) == IF n < 0 THEN -n ELSE n

OverlapX(a, b) == Min(a.right, b.right) - Max(a.x, b.x)
OverlapY(a, b) == Min(a.bottom, b.bottom) - Max(a.y, b.y)

\* one axis, the one of least overlap, by overlap + PADDING, toward b's centre
C21_AxisSizeSign ==
    LET a == overlap.a
        b == overlap.b
        v == overlap.push
    IN  /\ (v.x # 0) # (v.y # 0)
        /\ OverlapX(a, b) < OverlapY(a, b) => v.x # 0
        /\ OverlapY(a, b) < OverlapX(a, b) => v.y # 0
        /\ v.x # 0 => /\ Abs(v.x) = OverlapX(a, b) + 40
                      /\ 2 * b.x + b.width > 2 * a.x + a.width => v.x > 0
                      /\ 2 * b.x + b.width < 2 * a.x + a.width => v.x < 0
        /\ v.y # 0 => /\ Abs(v.y) = OverlapY(a, b) + 40
                      /\ 2 * b.y + b.height > 2 * a.y + a.height => v.y > 0
                      /\ 2 * b.y + b.height < 2 * a.y + a.height => v.y < 0

\* on the push axis b reaches at least as far as a on the side it is pushed
\* toward, and no farther than a on the other side
C21_Staggered ==
    LET a == overlap.a
        b == overlap.b
        v == overlap.push
    IN  /\ v.x > 0 => (b.x >= a.x /\ b.right >= a.right)
        /\ v.x < 0 => (b.x <= a.x /\ b.right <= a.right)
        /\ v.y > 0 => (b.y >= a.y /\ b.bottom >= a.bottom)
        /\ v.y < 0 => (b.y <= a.y /\ b.bottom <= a.bottom)

\* C21 as stated: for overlapping boxes a and b, calculatePushVector(a, b) is
\* non-zero on exactly one axis, the one with the smaller overlap, its size is
\* that overlap plus 40, its sign points from a's centre toward b's centre, and
\* b translated by it does not overlap a.
C21_PushSeparates ==
    overlap.done =>
        /\ C21_AxisSizeSign
        /\ ~boxesOverlap(overlap.a, overlap.after)

\* C21, amended: axis, size and sign as stated (the vertical axis when the two
\* overlaps are equal, the negative direction when the centres coincide on the
\* push axis); b translated by the vector does not overlap a whenever, on the
\* push axis, b reaches at least as far as a on the side it is pushed toward
\* and no farther than a on the other side.
C21_PushSeparatesStaggered ==
    overlap.done =>
        /\ C21_AxisSizeSign
        /\ (OverlapX(overlap.a, overlap.b) = OverlapY(overlap.a, overlap.b))
              => overlap.push.y # 0
        /\ (/\ overlap.push.x # 0
            /\ 2 * overlap.b.x + overlap.b.width = 2 * overlap.a.x + overlap.a.width)
              => overlap.push.x < 0
        /\ (/\ overlap.push.y # 0
            /\ 2 * overlap.b.y + overlap.b.height = 2 * overlap.a.y + overlap.a.height)
              => overlap.push.y < 0
        /\ C21_Staggered => ~boxesOverlap(overlap.a, overlap.after)

\* a staggered pair pushed apart along x
C21_Witness ==
    /\ overlap.done
    /\ overlap.push.x > 0
    /\ overlap.push.y = 0
    /\ overlap.b.x > overlap.a.x
    /\ overlap.b.right > overlap.a.right
    /\ overlap.after.x = overlap.a.right + 40

---------------------------------------------------------------------------
(* TopologyCanvas: the Position Store and the projection of a topo     *)
(* into nodes and edges.  Node, cluster and device ids are plain strings.  *)

MaxResets == 1        \* reset-layout requests between two mounts of the canvas
MaxDrags == 1         \* drags in one run of the canvas
MaxFetches == 1       \* L3 fetches of unmounted canvases that are pending
MaxRequests == 2      \* calls of fetchTopology that are pending

\* nocStore.error while none is set
NoError == "null"

\* err.message of a failed request
FetchError == "Network Error"

\* ---- localStorage item 'watchtower-node-positions' ----
\* kind: "missing" (getItem gives null), "unreadable" (every call on
\*       localStorage throws), "full" (no item, and the quota is used up:
\*       setItem throws), "empty" (the empty string), "corrupt" (text
\*       JSON.parse rejects), "null", "number" (JSON text of null, of a
\*       number), "map" (of an object)
Stored(kind, map) == [kind |-> kind, map |-> map]

NoPositions == <<>>                \* {}

\* a value of savedPositionsRef.current
Saved(kind, map) == [kind |-> kind, map |-> map]

EmptyStore == Saved("map", NoPositions)

\* try { saved = getItem(KEY); return saved ? JSON.parse(saved) : {} } catch { return {} }
loadSavedPositions(storage) ==
    IF storage.kind \in {"missing", "full", "empty"} THEN EmptyStore
    ELSE IF storage.kind \in {"unreadable", "corrupt"} THEN EmptyStore
    ELSE IF storage.kind = "null" THEN Saved("null", NoPositions)
    ELSE IF storage.kind = "number" THEN Saved("number", NoPositions)
    ELSE Saved("map", storage.map)

\* try { localStorage.setItem(KEY, JSON.stringify(positions)) } catch { }
\* the value is written as it is, a number or null too
savePositions(storage, positions) ==
    IF storage.kind \in {"unreadable", "full"} THEN storage
    ELSE IF positions.kind = "map" THEN Stored("map", positions.map)
    ELSE Stored(positions.kind, NoPositions)

\* try { localStorage.removeItem(KEY) } catch { }
clearSavedPositions(storage) ==
    IF storage.kind \in {"unreadable", "full"} THEN storage
    ELSE Stored("missing", NoPositions)

Absent == [absent |-> TRUE]

\* the members every object inherits from Object.prototype, and those a number
\* finds on Number.prototype and Object.prototype: a property read finds them
ObjectMembers ==
    {"constructor", "toString", "toLocaleString", "valueOf", "hasOwnProperty",
     "isPrototypeOf", "propertyIsEnumerable", "__proto__", "__defineGetter__",
     "__defineSetter__", "__lookupGetter__", "__lookupSetter__"}

NumberMembers == ObjectMembers \cup {"toFixed", "toExponential", "toPrecision"}

\* a coordinate that is undefined, and one that is NaN
NoCoordinate == -1000000

NaN == -1000001

\* an inherited member read as a position: a function, or Object.prototype,
\* whose x and y are undefined
InheritedMember == [x |-> NoCoordinate, y |-> NoCoordinate]

inherits(saved, id) ==
    \/ saved.kind = "map" /\ id \in ObjectMembers
    \/ saved.kind = "number" /\ id \in NumberMembers

owns(saved, id) == saved.kind = "map" /\ id \in DOMAIN saved.map

\* savedPositions[id] is truthy; reading a property of null throws
has(saved, id) == owns(saved, id) \/ inherits(saved, id)

\* savedPositions[id]
get(saved, id) ==
    IF owns(saved, id) THEN saved.map[id]
    ELSE IF inherits(saved, id) THEN InheritedMember
    ELSE Absent

\* savedPositionsRef.current[id] = { x, y }; the result is [threw, saved]:
\* the assignment of a property to a number or to null is a TypeError (the
\* module is strict-mode code) and leaves the value as it was
setPosition(saved, id, position) ==
    IF saved.kind = "map"
    THEN [threw |-> FALSE, saved |-> Saved("map", (id :> position) @@ saved.map)]
    ELSE [threw |-> TRUE, saved |-> saved]

\* ---- the topology document, as the canvas reads it ----
Cluster(id, x, y, device_ids) ==
    [id |-> id, position |-> [x |-> x, y |-> y], device_ids |-> device_ids]

\* one entry of topology.devices, under the key `id`
CanvasDevice(id, cluster_id, status) ==
    [id |-> id, cluster_id |-> cluster_id, status |-> status]

Connection(id, source, target, status, utilization) ==
    [id |-> id, source |-> source, target |-> target, status |-> status,
     utilization |-> utilization]

\* a status, a utilization that the document does not give (undefined or null)
NoStatus == "undefined"

NoUtilization == -1

\* an external link: source.device / source.label ("" when not given),
\* target.label, status and utilization
ExternalLink(id, device, label, target, status, utilization) ==
    [id |-> id, source |-> [device |-> device, label |-> label],
     target |-> [label |-> target], status |-> status,
     utilization |-> utilization]

CanvasTopology(clusters, devices, connections, external_links) ==
    [clusters |-> clusters, devices |-> devices, connections |-> connections,
     external_links |-> external_links]

hasDevice(topo, id) ==
    \E k \in 1..Len(topo.devices) : topo.devices[k].id = id

\* device.id of a value that has none: undefined
NoId == "undefined"

\* the fields read from a value that is no device: all undefined
NoDevice == [id |-> NoId, cluster_id |-> "", status |-> NoStatus]

\* topology.devices[id], as far as its fields id, cluster_id and status go: an
\* inherited member of the object and a missing key have none of them
deviceOf(topo, id) ==
    IF hasDevice(topo, id)
    THEN topo.devices[CHOOSE k \in 1..Len(topo.devices) : topo.devices[k].id = id]
    ELSE NoDevice

\* `external-${label}`
ExternalId(label) == "external-" \o label

\* `vlan-${vlan_id}`
VlanId(vlan_id) == "vlan-" \o ToString(vlan_id)

\* Math.ceil(Math.sqrt(n))
CeilSqrt(n) == CHOOSE k \in 0..n : k * k >= n /\ (k = 0 \/ (k - 1) * (k - 1) < n)

\* index counts from 0, as in the code
getClusterDefaultPosition(index, totalClusters, cluster) ==
    IF cluster.position.x > 0 \/ cluster.position.y > 0
    THEN [x |-> cluster.position.x, y |-> cluster.position.y]
    ELSE LET cols == CeilSqrt(totalClusters)
         IN  [x |-> 300 + (index % cols) * 400,
              y |-> 150 + (index \div cols) * 300]

\* a - b of the code: NaN when a is undefined or NaN
Minus(a, b) == IF a \in {NoCoordinate, NaN} THEN NaN ELSE a - b

\* a + b of the code: NaN when a is NaN
Plus(a, b) == IF a = NaN THEN NaN ELSE a + b

\* (cols - 1) * 200 / 2 and (rows - 1) * 120 / 2 are taken as (cols - 1) * 100
\* and (rows - 1) * 60
getExpandedDevicePositions(cluster, deviceCount, savedPositions, deviceIds) ==
    IF deviceCount = 0 THEN <<>>
    ELSE LET cols   == Min(3, deviceCount)
             rows   == (deviceCount + cols - 1) \div cols
             startX == Minus(cluster.position.x, (cols - 1) * 100)
             startY == Minus(cluster.position.y, (rows - 1) * 60)
         IN  [n \in 1..deviceCount |->
                 IF has(savedPositions, deviceIds[n])
                 THEN get(savedPositions, deviceIds[n])
                 ELSE [x |-> Plus(startX, ((n - 1) % cols) * 200),
                       y |-> Plus(startY, ((n - 1) \div cols) * 120)]]

\* cluster.device_ids.map((id) => topology.devices[id]).filter(Boolean): the
\* devices of the listed ids, and for an id that names an inherited member of
\* topology.devices that member, which has no id
clusterDevices(topo, cluster) ==
    LET found == SelectSeq(cluster.device_ids,
                           LAMBDA id : hasDevice(topo, id) \/ id \in ObjectMembers)
    IN  [n \in 1..Len(found) |-> deviceOf(topo, found[n])]

\* the nodes of one cluster: its device nodes when expanded, else its own node
clusterNodesOf(topo, expandedClusters, savedPositions, index) ==
    LET cluster    == topo.clusters[index]
        devices    == clusterDevices(topo, cluster)
        deviceIds  == [n \in 1..Len(devices) |-> devices[n].id]
        defaultPos == getClusterDefaultPosition(index - 1, Len(topo.clusters), cluster)
        clusterPos == IF has(savedPositions, cluster.id)
                      THEN get(savedPositions, cluster.id) ELSE defaultPos
    IN  IF cluster.id \in expandedClusters
        THEN LET positions == getExpandedDevicePositions(
                                  [cluster EXCEPT !.position = clusterPos],
                                  Len(deviceIds), savedPositions, deviceIds)
             IN  [n \in 1..Len(deviceIds) |->
                     Node(deviceIds[n], "device", cluster.id,
                          positions[n].x, positions[n].y)]
        ELSE <<Node(cluster.id, "cluster", NoClusterId, clusterPos.x, clusterPos.y)>>

RECURSIVE allClusterNodes(_, _, _, _)
allClusterNodes(topo, expandedClusters, savedPositions, n) ==
    IF n = 0 THEN <<>>
    ELSE allClusterNodes(topo, expandedClusters, savedPositions, n - 1)
           \o clusterNodesOf(topo, expandedClusters, savedPositions, n)

hasEndpoint(endpoints, label) ==
    \E k \in 1..Len(endpoints) : endpoints[k].label = label

\* the Map externalEndpoints after the first n links, in insertion order
RECURSIVE externalEndpoints(_, _)
externalEndpoints(links, n) ==
    IF n = 0 THEN <<>>
    ELSE LET before == externalEndpoints(links, n - 1)
             link   == links[n]
             first  == IF hasEndpoint(before, link.target.label) THEN before
                       ELSE Append(before, [label |-> link.target.label,
                                            x |-> 50, y |-> 150 + (n - 1) * 150])
         IN  IF link.source.label # "" /\ ~hasEndpoint(first, link.source.label)
             THEN Append(first, [label |-> link.source.label,
                                 x |-> 50, y |-> 150 + n * 150])
             ELSE first

externalNodes(topo, savedPositions) ==
    LET endpoints == externalEndpoints(topo.external_links,
                                       Len(topo.external_links))
    IN  [k \in 1..Len(endpoints) |->
            LET nodeId   == ExternalId(endpoints[k].label)
                position == IF has(savedPositions, nodeId)
                            THEN get(savedPositions, nodeId)
                            ELSE [x |-> endpoints[k].x, y |-> endpoints[k].y]
            IN  Node(nodeId, "external", NoClusterId, position.x, position.y)]

\* The result is [threw, nodes]: savedPositions[...] on null is a TypeError,
\* raised at the first cluster or external endpoint.
topologyToNodes(topo, expandedClusters, savedPositions) ==
    IF /\ savedPositions.kind = "null"
       /\ (Len(topo.clusters) > 0 \/ Len(topo.external_links) > 0)
    THEN [threw |-> TRUE, nodes |-> <<>>]
    ELSE [threw |-> FALSE,
          nodes |-> allClusterNodes(topo, expandedClusters, savedPositions,
                                    Len(topo.clusters))
                      \o externalNodes(topo, savedPositions)]

\* ---- L3 ----
L3Topology(vlan_ids) == [vlan_groups |-> [k \in 1..Len(vlan_ids) |-> [vlan_id |-> vlan_ids[k]]]]

l3TopologyToNodes(l3Topology, selectedVlans, savedPositions) ==
    LET vlanGroups == IF selectedVlans # {}
                      THEN SelectSeq(l3Topology.vlan_groups,
                                     LAMBDA g : g.vlan_id \in selectedVlans)
                      ELSE l3Topology.vlan_groups
        cols       == CeilSqrt(Len(vlanGroups))
    IN  IF savedPositions.kind = "null" /\ Len(vlanGroups) > 0
        THEN [threw |-> TRUE, nodes |-> <<>>]
        ELSE [threw |-> FALSE,
              nodes |-> [k \in 1..Len(vlanGroups) |->
                  LET nodeId     == VlanId(vlanGroups[k].vlan_id)
                      defaultPos == [x |-> 100 + ((k - 1) % cols) * 300,
                                     y |-> 100 + ((k - 1) \div cols) * 250]
                      position   == IF has(savedPositions, nodeId)
                                    THEN get(savedPositions, nodeId) ELSE defaultPos
                  IN  Node(nodeId, "vlanGroup", NoClusterId, position.x, position.y)]]

\* ---- edges of the device-to-device connections ----
\* Array.prototype.sort() on the two ids: the order of the ids as strings
IdOrder == <<"a", "b", "c1", "c2", "d">>

Rank(id) == CHOOSE k \in 1..Len(IdOrder) : IdOrder[k] = id

\* [actualSource, actualTarget].sort().join('--'), kept as the sorted pair
edgeKey(source, target) ==
    IF Rank(source) <= Rank(target) THEN <<source, target>> ELSE <<target, source>>

getEdgeStatus(topo, sourceDeviceId, targetDeviceId, connStatus) ==
    LET sourceStatus == deviceOf(topo, sourceDeviceId).status
        targetStatus == deviceOf(topo, targetDeviceId).status
    IN  IF sourceStatus = "down" \/ targetStatus = "down" THEN "down"
        ELSE IF sourceStatus = "degraded" \/ targetStatus = "degraded" THEN "degraded"
        ELSE IF connStatus = NoStatus THEN "up"
        ELSE connStatus

\* the edge pushed for a connection or an external link: utilization ?? 0
Edge(key, source, target, connection, status) ==
    [id |-> key, source |-> source, target |-> target,
     data |-> [utilization |-> IF connection.utilization = NoUtilization THEN 0
                               ELSE connection.utilization,
               status |-> status, connection |-> connection.id]]

hasEdge(edges, key) == \E k \in 1..Len(edges) : edges[k].id = key

\* body of topology.connections.forEach
connectionEdge(topo, expandedClusters, edges, conn) ==
    IF ~(conn.source # "" /\ conn.target # "") THEN edges
    ELSE IF ~(hasDevice(topo, conn.source) /\ hasDevice(topo, conn.target))
    THEN edges
    ELSE LET sourceCluster == deviceOf(topo, conn.source).cluster_id
             targetCluster == deviceOf(topo, conn.target).cluster_id
             actualSource  == IF sourceCluster \in expandedClusters
                              THEN conn.source ELSE sourceCluster
             actualTarget  == IF targetCluster \in expandedClusters
                              THEN conn.target ELSE targetCluster
             key           == edgeKey(actualSource, actualTarget)
         IN  IF sourceCluster = "" \/ targetCluster = "" THEN edges
             ELSE IF actualSource = actualTarget THEN edges
             ELSE IF hasEdge(edges, key) THEN edges
             ELSE Append(edges, Edge(key, actualSource, actualTarget, conn,
                                     getEdgeStatus(topo, conn.source,
                                                   conn.target, conn.status)))

RECURSIVE connectionEdges(_, _, _)
connectionEdges(topo, expandedClusters, n) ==
    IF n = 0 THEN <<>>
    ELSE connectionEdge(topo, expandedClusters,
                        connectionEdges(topo, expandedClusters, n - 1),
                        topo.connections[n])

\* body of topology.external_links.forEach; the edge id `edge-${link.id}` is
\* kept as a pair
externalLinkEdge(topo, expandedClusters, link) ==
    LET sourceDeviceId == link.source.device
        sourceCluster  == IF sourceDeviceId # "" /\ hasDevice(topo, sourceDeviceId)
                          THEN deviceOf(topo, sourceDeviceId).cluster_id ELSE ""
        sourceId       == IF sourceDeviceId # "" /\ sourceCluster # ""
                          THEN IF sourceCluster \in expandedClusters
                               THEN sourceDeviceId ELSE sourceCluster
                          ELSE IF link.source.label # ""
                          THEN ExternalId(link.source.label)
                          ELSE ""
        linkStatus     == IF link.status = NoStatus THEN "up" ELSE link.status
        sourceStatus   == IF sourceDeviceId # "" /\ hasDevice(topo, sourceDeviceId)
                          THEN deviceOf(topo, sourceDeviceId).status ELSE NoStatus
        externalLinkStatus ==
                          IF sourceStatus = "down" THEN "down"
                          ELSE IF sourceStatus = "degraded" THEN "degraded"
                          ELSE linkStatus
    IN  IF sourceId = "" THEN <<>>
        ELSE <<Edge(<<"edge", link.id>>, sourceId, ExternalId(link.target.label),
                    [id |-> link.id, utilization |-> link.utilization],
                    externalLinkStatus)>>

RECURSIVE externalLinkEdges(_, _, _)
externalLinkEdges(topo, expandedClusters, n) ==
    IF n = 0 THEN <<>>
    ELSE externalLinkEdges(topo, expandedClusters, n - 1)
           \o externalLinkEdge(topo, expandedClusters, topo.external_links[n])

\* the edges of the connections, then the edges of the external links
topologyToEdges(topo, expandedClusters) ==
    connectionEdges(topo, expandedClusters, Len(topo.connections))
      \o externalLinkEdges(topo, expandedClusters, Len(topo.external_links))

---------------------------------------------------------------------------
(* One projection: the stored positions are loaded, then the topology is   *)
(* projected into nodes (L2 or L3) or into edges.                          *)

MaxConnections == 2

StoredMaps ==
    { NoPositions,
      ("c1" :> [x |-> 500, y |-> 500]),
      ("a" :> [x |-> 7, y |-> 7]) @@ ("external-isp" :> [x |-> 9, y |-> 9]) }

Storages ==
    { Stored(kind, NoPositions) :
        kind \in {"missing", "unreadable", "empty", "corrupt", "null", "number"} }
      \cup { Stored("map", m) : m \in StoredMaps }

Devices == <<CanvasDevice("a", "c1", "up"), CanvasDevice("b", "c2", "up"),
             CanvasDevice("d", "c1", "up")>>

ClusterLists ==
    { <<Cluster("c1", 0, 0, <<"a", "d">>), Cluster("c2", 350, 150, <<"b">>)>>,
      <<Cluster("c1", 0, 0, <<"a", "zz">>), Cluster("c2", 0, 0, <<"b">>)>>,
      <<Cluster("c1", 0, 0, <<"a">>), Cluster("c2", 350, 150, <<"a", "b">>)>>,
      <<Cluster("c1", 0, 0, <<>>), Cluster("c2", 350, 150, <<"b">>)>>,
      <<Cluster("constructor", 0, 0, <<"toString", "a">>),
        Cluster("c2", 350, 150, <<"b">>)>> }

ClusterIds(clusters) == {clusters[k].id : k \in 1..Len(clusters)}

ExternalLinkLists ==
    { <<>>,
      <<ExternalLink("x1", "a", "", "isp", "up", 10)>>,
      <<ExternalLink("x1", "a", "", "isp", "down", 75),
        ExternalLink("x2", "", "wan", "isp", NoStatus, NoUtilization)>> }

\* two more devices of c1, for clusters of three and four members
GridDevices ==
    Devices \o <<CanvasDevice("e", "c1", "up"), CanvasDevice("f", "c1", "up")>>

\* configured positions on and off the origin, with coordinates of either sign
AnchorClusterLists ==
    { <<Cluster("c1", 0, 0, <<"a", "d", "e", "f">>), Cluster("c2", 0, 0, <<"b">>)>>,
      <<Cluster("c1", 350, 150, <<"a", "d", "e", "f">>), Cluster("c2", 0, 40, <<"b">>)>>,
      <<Cluster("c1", -200, 0, <<"a", "d", "e">>), Cluster("c2", 0, -50, <<"b">>)>>,
      <<Cluster("c1", -200, 300, <<"a", "d">>), Cluster("c2", -40, -40, <<"b">>)>> }

\* the statuses of the devices a, b and d
StatusLists == { <<"up", "up", "up">>, <<"degraded", "up", "down">> }

DevicesWith(statuses) ==
    [k \in 1..Len(Devices) |-> [Devices[k] EXCEPT !.status = statuses[k]]]

\* the raw status of the k-th connection
RawStatuses == <<"up", "degraded", "down">>

VlanLists == { <<>>, <<10>>, <<10, 20>>, <<10, 10>> }

\* nocStore.selectedVlans: no filter, or the VLANs ticked in the filter panel
VlanFilters == { {}, {20} }

Endpoints == { <<"a", "b">>, <<"b", "a">>, <<"d", "b">>, <<"a", "d">> }

Utilizations == {NoUtilization, 10, 90}

ConnectionIds == <<"k1", "k2", "k3">>

ProjectInit ==
    /\ InitRest
    /\ layout = NoLayout /\ overlap = NoOverlap /\ canvas = NoCanvas
    /\ mapping = NoMapping /\ loader = NoLoader
    /\ \/ \E clusters \in ClusterLists :
          \E expandedClusters \in SUBSET ClusterIds(clusters) :
            \/ \E storage \in Storages, links \in ExternalLinkLists,
                  vlans \in VlanLists, selectedVlans \in VlanFilters :
                 projection = [phase |-> "stored", storage |-> storage,
                               topology |-> CanvasTopology(clusters, Devices,
                                                           <<>>, links),
                               l3Topology |-> L3Topology(vlans),
                               selectedVlans |-> selectedVlans,
                               expandedClusters |-> expandedClusters]
            \/ \E n \in 1..MaxConnections, statuses \in StatusLists :
                 \E ends \in [1..n -> Endpoints], utils \in [1..n -> Utilizations],
                    given \in {{}, {1}, 1..n} :
                   projection = [phase |-> "stored",
                                 storage |-> Stored("missing", NoPositions),
                                 topology |-> CanvasTopology(clusters,
                                     DevicesWith(statuses),
                                     [k \in 1..n |-> Connection(ConnectionIds[k],
                                           ends[k][1], ends[k][2],
                                           IF k \in given THEN RawStatuses[k]
                                           ELSE NoStatus,
                                           utils[k])],
                                     <<ExternalLink("x1", "a", "", "isp",
                                                    NoStatus, NoUtilization)>>),
                                 l3Topology |-> L3Topology(<<>>),
                                 selectedVlans |-> {},
                                 expandedClusters |-> expandedClusters]
       \/ \E grid \in AnchorClusterLists, expandedClusters \in SUBSET {"c1", "c2"},
             m \in StoredMaps :
            projection = [phase |-> "stored", storage |-> Stored("map", m),
                          topology |-> CanvasTopology(grid, GridDevices, <<>>, <<>>),
                          l3Topology |-> L3Topology(<<>>),
                          selectedVlans |-> {},
                          expandedClusters |-> expandedClusters]

\* useRef(loadSavedPositions())
LoadPositions ==
    /\ projection.phase = "stored"
    /\ projection' = [phase |-> "loaded", storage |-> projection.storage,
                      topology |-> projection.topology,
                      l3Topology |-> projection.l3Topology,
                      selectedVlans |-> projection.selectedVlans,
                      expandedClusters |-> projection.expandedClusters,
                      savedPositions |-> loadSavedPositions(projection.storage)]
    /\ UNCHANGED <<storeVars, connVars, msgVars, lookup, layout, overlap, canvas, mapping, loader>>

Projected(phase, result) ==
    [phase |-> phase, storage |-> projection.storage,
     topology |-> projection.topology, l3Topology |-> projection.l3Topology,
     selectedVlans |-> projection.selectedVlans,
     expandedClusters |-> projection.expandedClusters,
     savedPositions |-> projection.savedPositions,
     threw |-> result.threw, nodes |-> result.nodes]

ProjectNodes ==
    /\ projection.phase = "loaded"
    /\ projection' = Projected("nodes",
           topologyToNodes(projection.topology, projection.expandedClusters,
                           projection.savedPositions))
    /\ UNCHANGED <<storeVars, connVars, msgVars, lookup, layout, overlap, canvas, mapping, loader>>

ProjectL3 ==
    /\ projection.phase = "loaded"
    /\ projection' = Projected("l3",
           l3TopologyToNodes(projection.l3Topology, projection.selectedVlans,
                             projection.savedPositions))
    /\ UNCHANGED <<storeVars, connVars, msgVars, lookup, layout, overlap, canvas, mapping, loader>>

ProjectEdges ==
    /\ projection.phase = "loaded"
    /\ projection' = [phase |-> "edges", storage |-> projection.storage,
                      topology |-> projection.topology,
                      l3Topology |-> projection.l3Topology,
                      selectedVlans |-> projection.selectedVlans,
                      expandedClusters |-> projection.expandedClusters,
                      savedPositions |-> projection.savedPositions,
                      edges |-> topologyToEdges(projection.topology,
                                                projection.expandedClusters)]
    /\ UNCHANGED <<storeVars, connVars, msgVars, lookup, layout, overlap, canvas, mapping, loader>>

ProjectNext == LoadPositions \/ ProjectNodes \/ ProjectL3 \/ ProjectEdges

ProjectSpec == ProjectInit /\ [][ProjectNext]_vars

---------------------------------------------------------------------------
(* Claims on one projection.                                               *)

UnusableStorage == {"missing", "unreadable", "empty", "corrupt", "null", "number"}

\* C27: loading the Position Store from storage that is missing, unreadable or
\* corrupt (text that does not parse, or text that parses to something that is
\* not a map, such as null) gives the empty store, and neither the load nor a
\* later projection raises an error.
C27_UnusableStorageLoadsEmpty ==
    (projection.phase \in {"loaded", "nodes", "l3", "edges"}
        /\ projection.storage.kind \in UnusableStorage)
    => /\ projection.savedPositions = EmptyStore
       /\ projection.phase \in {"nodes", "l3"} => ~projection.threw

\* C28: in every projection (L2 and L3) the node ids are pairwise distinct.
C28_NodeIdsDistinct ==
    (projection.phase \in {"nodes", "l3"} /\ ~projection.threw)
    => \A i, j \in 1..Len(projection.nodes) :
          i # j => projection.nodes[i].id # projection.nodes[j].id

hasClusterNode(nodes, cluster) ==
    \E k \in 1..Len(nodes) : nodes[k].type = "cluster" /\ nodes[k].id = cluster.id

hasMemberNodes(nodes, cluster) ==
    \E k \in 1..Len(nodes) : nodes[k].type = "device" /\ nodes[k].clusterId = cluster.id

\* C29: in every L2 projection each cluster of the topology is shown either by
\* its collapsed cluster node or by device nodes of its members: never by
\* both, never by neither.
C29_OneRepresentation ==
    (projection.phase = "nodes" /\ ~projection.threw)
    => \A k \in 1..Len(projection.topology.clusters) :
          LET cluster == projection.topology.clusters[k]
          IN  hasClusterNode(projection.nodes, cluster)
                # hasMemberNodes(projection.nodes, cluster)

\* the pair a connection resolves to; <<>> when the connection gives no edge
resolvedPair(topo, expandedClusters, conn) ==
    LET after == connectionEdge(topo, expandedClusters, <<>>, conn)
    IN  IF after = <<>> THEN <<>> ELSE after[1].id

\* C30: when several connections resolve to the same unordered pair of
\* endpoints, the projection has exactly one edge for the pair and its data
\* are those of the duplicate with the highest utilization.
C30_HighestUtilizationKept ==
    projection.phase = "edges"
    => \A n \in 1..Len(projection.topology.connections) :
          LET topo  == projection.topology
              pair  == resolvedPair(topo, projection.expandedClusters,
                                    topo.connections[n])
              same  == { m \in 1..Len(topo.connections) :
                           resolvedPair(topo, projection.expandedClusters,
                                        topo.connections[m]) = pair }
              found == { k \in 1..Len(projection.edges) :
                           projection.edges[k].id = pair }
          IN  pair # <<>>
              => /\ Cardinality(found) = 1
                 /\ \A k \in found, m \in same :
                       projection.edges[k].data.utilization
                         >= topo.connections[m].utilization

\* the duplicates collapse to one edge, which is the first of them
C30_FirstDuplicateKept ==
    projection.phase = "edges"
    => \A n \in 1..Len(projection.topology.connections) :
          LET topo  == projection.topology
              pair  == resolvedPair(topo, projection.expandedClusters,
                                    topo.connections[n])
              same  == { m \in 1..Len(topo.connections) :
                           resolvedPair(topo, projection.expandedClusters,
                                        topo.connections[m]) = pair }
              found == { k \in 1..Len(projection.edges) :
                           projection.edges[k].id = pair }
          IN  pair # <<>>
              => /\ Cardinality(found) = 1
                 /\ \A k \in found :
                       projection.edges[k].data.connection
                         = topo.connections[CHOOSE m \in same :
                                               \A o \in same : m <= o].id

---------------------------------------------------------------------------
(* TopologyCanvasInner: the mounted canvas.  Every handler is taken with   *)
(* the render it causes: the processedNodes memo, then the update effect.  *)
(* `cause`, `moved`, `memoResolved` and `effectResolved` record what the   *)
(* last step did and `drags` counts the drags; the rest is the component's *)
(* and the store's state.  Layout shows the canvas only while error is   *)
(* null and isLoading is false; App.loadTopology raises isLoading at every *)
(* call, so a call takes the canvas off the screen and the answer to it    *)
(* mounts a new one.                                                       *)

CanvasTopologyOf(status) ==
    CanvasTopology(<<Cluster("c1", 0, 0, <<"a">>), Cluster("c2", 350, 150, <<"b">>)>>,
                   <<CanvasDevice("a", "c1", status), CanvasDevice("b", "c2", "up")>>,
                   <<>>,
                   <<>>)

DeviceStatuses == {"up", "down"}

\* nocStore.l3Topology while no fetch has resolved: null
NoL3Topology == [isNull |-> TRUE]

\* the document fetchL3Topology resolves with
CanvasL3Topology == L3Topology(<<10, 20>>)

\* the check boxes of the filter panel (one for each of l3Topology.vlans)
\* that are ticked and unticked
CanvasVlans == {20}

\* what the item may hold when the page is opened; storage that cannot be
\* read behaves in the canvas as storage that is full does
CanvasStorages ==
    { Stored(kind, NoPositions) : kind \in {"missing", "full", "null", "number"} }

DragPositions == { [x |-> 350, y |-> 150] }

CanvasIds == {"c1", "c2", "a", "b", "vlan-10", "vlan-20"}

NoMove == [id |-> ""]

\* expandedClusters.size !== prev.size || [...expandedClusters].some(id => !prev.has(id))
expandedChanged(expandedClusters, prevExpanded) ==
    \/ Cardinality(expandedClusters) # Cardinality(prevExpanded)
    \/ \E id \in expandedClusters : id \notin prevExpanded

\* the processedNodes memo: does it call resolveOverlaps
memoResolves(c) ==
    /\ c.viewMode = "l2"
    /\ expandedChanged(c.expandedClusters, c.prevExpanded) \/ c.resetCounter > 0

\* the processedNodes memo, as [threw, nodes]
processedNodes(c) ==
    IF c.viewMode = "l3"
    THEN IF c.l3Topology = NoL3Topology
         THEN [threw |-> FALSE, nodes |-> <<>>]
         ELSE l3TopologyToNodes(c.l3Topology, c.selectedVlans, c.savedPositions)
    ELSE CHOOSE memo \in
             { IF projected.threw \/ ~memoResolves(c) THEN projected
               ELSE [threw |-> FALSE,
                     nodes |-> resolveOverlaps(projected.nodes,
                                               c.expandedClusters).result] :
                 projected \in { topologyToNodes(c.topology, c.expandedClusters,
                                                 c.savedPositions) } } : TRUE

\* what the component returns is the ReactFlow element with its panel: not
\* the loading text of L3, and not null for want of the L3 topology
rendersFlow(c) ==
    /\ c.mounted
    /\ ~(c.viewMode = "l3" /\ c.l3Loading)
    /\ ~(c.viewMode = "l3" /\ c.l3Topology = NoL3Topology)

\* an error raised while rendering or in an effect: no error boundary is
\* around the canvas, React unmounts the application
crashed(c) == [c EXCEPT !.mounted = FALSE, !.crashed = TRUE]

\* newNodes.forEach: savedPositionsRef.current[node.id] = {...node.position}
\* for the cluster and external nodes; the result is [threw, saved]
RECURSIVE persistTopLevel(_, _, _)
persistTopLevel(saved, nodes, n) ==
    IF n = 0 THEN [threw |-> FALSE, saved |-> saved]
    ELSE LET before == persistTopLevel(saved, nodes, n - 1)
         IN  IF before.threw THEN before
             ELSE IF nodes[n].type = "cluster" \/ nodes[n].type = "external"
             THEN setPosition(before.saved, nodes[n].id, nodes[n].position)
             ELSE before

\* The update effect in L2, in three steps; each step hands its result to the
\* next as a value (a bound variable), so that it is computed once.
\* setNodes(newNodes), with the refs and the stored copy as the effect leaves them
l2Shown(c, changed, shown, saved) ==
    [c EXCEPT !.nodes = shown,
              !.savedPositions = saved,
              !.storage = IF changed THEN savePositions(@, saved) ELSE @,
              !.prevExpanded = c.expandedClusters,
              !.effectResolved = changed]

\* if (expandedChanged) { ...save the cluster and external positions }
l2Persisted(c, changed, shown) ==
    CHOOSE after \in
        { IF persisted.threw THEN crashed(c)
          ELSE l2Shown(c, changed, shown, persisted.saved) :
            persisted \in { IF changed
                            THEN persistTopLevel(c.savedPositions, shown, Len(shown))
                            ELSE [threw |-> FALSE, saved |-> c.savedPositions] } } : TRUE

\* if (expandedChanged) newNodes = resolveOverlaps(newNodes, expandedClusters)
l2Effect(c, newNodes) ==
    LET changed == expandedChanged(c.expandedClusters, c.prevExpanded)
    IN  CHOOSE after \in
            { l2Persisted(c, changed, shown) :
                shown \in { IF changed
                            THEN resolveOverlaps(newNodes, c.expandedClusters).result
                            ELSE newNodes } } : TRUE

\* the update effect; in L3 it sets the nodes only if (l3Topology)
updateEffect(c) ==
    IF c.viewMode = "l3"
    THEN IF c.l3Topology = NoL3Topology
         THEN [c EXCEPT !.effectResolved = FALSE]
         ELSE CHOOSE after \in
                  { IF newNodes.threw THEN crashed(c)
                    ELSE [c EXCEPT !.nodes = newNodes.nodes,
                                   !.effectResolved = FALSE] :
                      newNodes \in { l3TopologyToNodes(c.l3Topology, c.selectedVlans,
                                                       c.savedPositions) } } : TRUE
    ELSE CHOOSE after \in
             { IF newNodes.threw THEN crashed(c)
               ELSE l2Effect(c, newNodes.nodes) :
                 newNodes \in { topologyToNodes(c.topology, c.expandedClusters,
                                                c.savedPositions) } } : TRUE

\* the effect that fetches the L3 topology; `run` says that it is the first
\* render of the component or that viewMode or l3Topology changed
fetchEffect(c, run) ==
    IF run /\ c.viewMode = "l3" /\ c.l3Topology = NoL3Topology
    THEN [c EXCEPT !.l3Loading = TRUE, !.fetching = TRUE]
    ELSE c

\* one render: the memo, then the two effects in the order of the source;
\* useNodesState takes the memo's value in the first render only
rendered(c, cause, initial, fetchDeps, memo) ==
    IF memo.threw
    THEN [crashed(c) EXCEPT !.cause = cause, !.moved = NoMove]
    ELSE LET first == IF initial THEN [c EXCEPT !.nodes = memo.nodes] ELSE c
             after == updateEffect(fetchEffect(first, initial \/ fetchDeps))
         IN  [after EXCEPT !.cause = cause, !.moved = NoMove,
                           !.memoResolved = memoResolves(c)]

\* one render after a change of the memo's and the update effect's dependencies
Rerender(c, cause, fetchDeps) ==
    CHOOSE after \in
        { rendered(c, cause, FALSE, fetchDeps, memo) :
            memo \in { processedNodes(c) } } : TRUE

\* a new TopologyCanvasInner: the refs and the state start over
Mount(c, cause) ==
    CHOOSE after \in
        { rendered(fresh, cause, TRUE, TRUE, processedNodes(fresh)) :
            fresh \in { [c EXCEPT !.mounted = TRUE,
                                  !.savedPositions = loadSavedPositions(c.storage),
                                  !.prevExpanded = {},
                                  !.resetCounter = 0,
                                  !.l3Loading = FALSE] } } : TRUE

\* the canvas is taken off the screen: the state and the refs of the component
\* are gone, and a fetch it had started goes on without it; savedPositions
\* keeps the last value of the ref, for the claims that compare it with the
\* value the next canvas loads
unmounted(c) ==
    [c EXCEPT !.mounted = FALSE,
              !.prevExpanded = {},
              !.resetCounter = 0,
              !.l3Loading = FALSE,
              !.staleFetches = IF c.fetching THEN @ + 1 ELSE @,
              !.fetching = FALSE,
              !.nodes = <<>>,
              !.cause = "unmount",
              !.moved = NoMove,
              !.memoResolved = FALSE,
              !.effectResolved = FALSE]

\* Layout: the error screen if (error), the spinner while isLoading, else the
\* canvas
showsCanvas(c) == c.error = NoError /\ ~c.isLoading

\* what is on the screen after nocStore changed to c: nothing any more once
\* the application crashed; else the canvas is mounted, rendered again, taken
\* off or left off the screen
Layout(c, cause, fetchDeps) ==
    IF c.crashed THEN c
    ELSE IF showsCanvas(c)
    THEN IF c.mounted THEN Rerender(c, cause, fetchDeps) ELSE Mount(c, cause)
    ELSE IF c.mounted THEN unmounted(c)
    ELSE c

\* the application is mounted: nocStore is in its initial state and the mount
\* effect of App has called loadTopology
CanvasInit ==
    /\ InitRest
    /\ layout = NoLayout /\ overlap = NoOverlap /\ projection = NoProjection
    /\ mapping = NoMapping /\ loader = NoLoader
    /\ \E storage \in CanvasStorages :
         canvas = [mounted |-> FALSE,
                   crashed |-> FALSE,
                   isLoading |-> TRUE,
                   error |-> NoError,
                   requests |-> 1,
                   topology |-> NullTopology,
                   expandedClusters |-> {},
                   viewMode |-> "l2",
                   l3Topology |-> NoL3Topology,
                   selectedVlans |-> {},
                   l3Loading |-> FALSE,
                   fetching |-> FALSE,
                   staleFetches |-> 0,
                   storage |-> storage,
                   savedPositions |-> EmptyStore,
                   prevExpanded |-> {},
                   resetCounter |-> 0,
                   nodes |-> <<>>,
                   cause |-> "start",
                   moved |-> NoMove,
                   memoResolved |-> FALSE,
                   effectResolved |-> FALSE,
                   drags |-> 0]

CanvasUnchanged ==
    UNCHANGED <<storeVars, connVars, msgVars, lookup, layout, overlap, projection,
                mapping, loader>>

\* onNodeDoubleClick on a cluster node or on a device node of the cluster
ToggleCluster(clusterId) ==
    /\ rendersFlow(canvas)
    /\ \E k \in 1..Len(canvas.nodes) :
         \/ canvas.nodes[k].type = "cluster" /\ canvas.nodes[k].id = clusterId
         \/ canvas.nodes[k].type = "device" /\ canvas.nodes[k].clusterId = clusterId
    /\ canvas' = Rerender([canvas EXCEPT !.expandedClusters =
                               IF clusterId \in @ THEN @ \ {clusterId}
                               ELSE @ \cup {clusterId}],
                          "toggle", FALSE)
    /\ CanvasUnchanged

\* handleNodesChange with a position change whose dragging is false:
\* onNodesChange moves the node, then the position is set in the ref and the
\* ref is saved, unless the assignment throws
Drag(k, position) ==
    /\ rendersFlow(canvas)
    /\ canvas.drags < MaxDrags
    /\ k \in 1..Len(canvas.nodes)
    /\ LET set == setPosition(canvas.savedPositions, canvas.nodes[k].id, position)
       IN  canvas' = [canvas EXCEPT !.nodes[k].position = position,
                                    !.savedPositions = set.saved,
                                    !.storage = IF set.threw THEN @
                                                ELSE savePositions(@, set.saved),
                                    !.cause = "drag",
                                    !.moved = [id |-> canvas.nodes[k].id,
                                               position |-> position],
                                    !.memoResolved = FALSE,
                                    !.effectResolved = FALSE,
                                    !.drags = @ + 1]
    /\ CanvasUnchanged

handleResetLayout ==
    /\ rendersFlow(canvas)
    /\ canvas.resetCounter < MaxResets
    /\ canvas' = Rerender([canvas EXCEPT !.storage = clearSavedPositions(@),
                                         !.savedPositions = EmptyStore,
                                         !.prevExpanded = {},
                                         !.resetCounter = @ + 1],
                          "reset", FALSE)
    /\ CanvasUnchanged

\* setInterval(loadTopology, 60000) fires, whether or not an earlier call is
\* answered: setLoading(true), then fetchTopology() is awaited
RefreshTopology ==
    /\ ~canvas.crashed
    /\ canvas.requests < MaxRequests
    /\ (canvas.mounted /\ canvas.fetching) => canvas.staleFetches < MaxFetches
    /\ canvas' = Layout([canvas EXCEPT !.isLoading = TRUE, !.requests = @ + 1],
                        "unmount", FALSE)
    /\ CanvasUnchanged

\* loadTopology: one fetchTopology() resolved; setTopology(topology), which
\* clears the error, then setLoading(false)
TopologyRefreshed(status) ==
    /\ canvas.requests > 0
    /\ canvas' = Layout([canvas EXCEPT !.topology = CanvasTopologyOf(status),
                                       !.error = NoError,
                                       !.isLoading = FALSE,
                                       !.requests = @ - 1],
                        IF canvas.topology = NullTopology THEN "mount" ELSE "refresh",
                        FALSE)
    /\ CanvasUnchanged

\* loadTopology: one fetchTopology() rejected; setError(message), then
\* setLoading(false)
TopologyRefreshFailed ==
    /\ canvas.requests > 0
    /\ (canvas.mounted /\ canvas.fetching) => canvas.staleFetches < MaxFetches
    /\ canvas' = Layout([canvas EXCEPT !.error = FetchError,
                                       !.isLoading = FALSE,
                                       !.requests = @ - 1],
                        "unmount", FALSE)
    /\ CanvasUnchanged

\* nocStore.updateDeviceStatus("a", status), from a device_status_change
\* message; if (!topology) return.  The store is not part of the React tree:
\* after the application crashed a reconnected socket still delivers the
\* message and the store takes it, with nothing on the screen.
StatusChange(status) ==
    /\ canvas.topology # NullTopology
    /\ canvas' = Layout([canvas EXCEPT !.topology = CanvasTopologyOf(status)],
                        "status", FALSE)
    /\ CanvasUnchanged

\* setViewMode(mode); clearVlanFilter()
handleViewModeChange(mode) ==
    /\ rendersFlow(canvas)
    /\ canvas' = Rerender([canvas EXCEPT !.viewMode = mode, !.selectedVlans = {}],
                          "view", mode # canvas.viewMode)
    /\ CanvasUnchanged

\* a check box of the VLAN filter panel
toggleVlanFilter(vlanId) ==
    /\ rendersFlow(canvas) /\ canvas.viewMode = "l3"
    /\ canvas' = Rerender([canvas EXCEPT !.selectedVlans =
                               IF vlanId \in @ THEN @ \ {vlanId}
                               ELSE @ \cup {vlanId}],
                          "filter", FALSE)
    /\ CanvasUnchanged

\* the Clear button of the VLAN filter panel
clearVlanFilter ==
    /\ rendersFlow(canvas) /\ canvas.viewMode = "l3"
    /\ canvas.selectedVlans # {}
    /\ canvas' = Rerender([canvas EXCEPT !.selectedVlans = {}], "filter", FALSE)
    /\ CanvasUnchanged

\* fetchL3Topology() of this canvas resolves: setL3Topology(data),
\* setL3Loading(false)
L3Fetched ==
    /\ canvas.fetching
    /\ canvas' = Layout([canvas EXCEPT !.l3Topology = CanvasL3Topology,
                                       !.l3Loading = FALSE,
                                       !.fetching = FALSE],
                        "fetch", TRUE)
    /\ CanvasUnchanged

\* fetchL3Topology() of this canvas is rejected: setL3Loading(false); no
\* dependency of the memo or of an effect changes
L3FetchFailed ==
    /\ canvas.fetching
    /\ canvas' = IF canvas.crashed THEN [canvas EXCEPT !.fetching = FALSE]
                 ELSE [canvas EXCEPT !.l3Loading = FALSE,
                                     !.fetching = FALSE,
                                     !.cause = "fetch",
                                     !.moved = NoMove,
                                     !.memoResolved = FALSE,
                                     !.effectResolved = FALSE]
    /\ CanvasUnchanged

\* the fetch of a canvas that was unmounted meanwhile resolves: the store
\* takes the document, whether or not a canvas is on the screen; the state
\* of the old component is gone
StaleL3Fetched ==
    /\ canvas.staleFetches > 0
    /\ canvas' = Layout([canvas EXCEPT !.l3Topology = CanvasL3Topology,
                                       !.staleFetches = @ - 1],
                        "fetch", TRUE)
    /\ CanvasUnchanged

\* the fetch of an unmounted canvas is rejected: setL3Loading(false) of a
\* component that is gone
StaleL3FetchFailed ==
    /\ canvas.staleFetches > 0
    /\ canvas' = [canvas EXCEPT !.staleFetches = @ - 1]
    /\ CanvasUnchanged

CanvasNext ==
    \/ \E clusterId \in {"c1", "c2"} : ToggleCluster(clusterId)
    \/ \E k \in 1..MaxNodes, position \in DragPositions : Drag(k, position)
    \/ handleResetLayout
    \/ RefreshTopology
    \/ \E status \in DeviceStatuses : TopologyRefreshed(status)
    \/ TopologyRefreshFailed
    \/ \E status \in DeviceStatuses : StatusChange(status)
    \/ \E mode \in {"l2", "l3"} : handleViewModeChange(mode)
    \/ \E vlanId \in CanvasVlans : toggleVlanFilter(vlanId)
    \/ clearVlanFilter
    \/ L3Fetched
    \/ L3FetchFailed
    \/ StaleL3Fetched
    \/ StaleL3FetchFailed

CanvasSpec == CanvasInit /\ [][CanvasNext]_vars

---------------------------------------------------------------------------
(* Claims on the mounted canvas.                                           *)

\* the item is missing or holds a map, and the storage takes what is written
storageWorks(c) == c.storage.kind \in {"missing", "map"}

\* C22: the resolver runs only when the expanded set changes or a reset is
\* requested: a topology refresh, a device-status change or any other
\* re-render with the expanded set unchanged and no reset requested at that
\* moment does not run the resolver on the displayed nodes.
C22_ResolverOnlyOnStructuralChange ==
    (canvas.mounted /\ canvas.cause \in {"refresh", "status", "view"})
    => ~canvas.effectResolved

\* the memo of the same render does not call the resolver either
C22_MemoIdle ==
    (canvas.mounted /\ canvas.cause \in {"refresh", "status", "view"})
    => ~canvas.memoResolved

\* a node with a stored position, as a drag leaves one, is shown at that
\* position after a refresh, on storage that works
C22_DragKeptOnRefresh ==
    [][ (canvas'.mounted /\ canvas'.cause = "refresh" /\ storageWorks(canvas))
        => \A k \in 1..Len(canvas'.nodes) :
              has(canvas.savedPositions, canvas'.nodes[k].id)
              => canvas'.nodes[k].position
                   = get(canvas.savedPositions, canvas'.nodes[k].id) ]_vars

\* the entries of the store are those the resolver run persisted
persistedOnly(saved, nodes) ==
    \A id \in DOMAIN saved.map :
        \E k \in 1..Len(nodes) :
            /\ nodes[k].id = id
            /\ nodes[k].type \in {"cluster", "external"}
            /\ nodes[k].position = saved.map[id]

\* C23: a reset empties the Position Store and the displayed nodes are the
\* result of one resolver run over the default projection (no stored
\* position), whatever the expanded set, the empty one included.
C23_ResetResolvesDefaultProjection ==
    (canvas.mounted /\ canvas.cause = "reset" /\ canvas.viewMode = "l2")
    => /\ canvas.effectResolved
       /\ canvas.nodes =
            resolveOverlaps(topologyToNodes(canvas.topology, canvas.expandedClusters,
                                            EmptyStore).nodes,
                            canvas.expandedClusters).result
       /\ persistedOnly(canvas.savedPositions, canvas.nodes)

\* what holds of a reset: it resolves exactly when a cluster is expanded
C23_ResetResolvesWhenExpanded ==
    (canvas.mounted /\ canvas.cause = "reset" /\ canvas.viewMode = "l2")
    => /\ canvas.effectResolved <=> canvas.expandedClusters # {}
       /\ persistedOnly(canvas.savedPositions, canvas.nodes)

\* C24: after an expand or collapse was resolved and persisted, a later
\* projection of the same topology with the same expanded set shows every
\* node, the device nodes the resolver moved included, where the resolver
\* left it.
C24_ResolvedLayoutReproduced ==
    [][ ( /\ canvas.mounted
          /\ canvas.cause = "toggle" /\ canvas.effectResolved
          /\ canvas'.cause \in {"status", "refresh"}
          /\ canvas'.topology = canvas.topology
          /\ canvas'.expandedClusters = canvas.expandedClusters )
        => canvas'.nodes = canvas.nodes ]_vars

\* the top-level nodes are reproduced
C24_TopLevelReproduced ==
    [][ ( /\ canvas.mounted
          /\ canvas.cause = "toggle" /\ canvas.effectResolved
          /\ canvas'.cause = "status"
          /\ canvas'.topology = canvas.topology
          /\ canvas'.expandedClusters = canvas.expandedClusters )
        => \A k \in 1..Len(canvas.nodes) :
              canvas.nodes[k].type # "device"
              => \E n \in 1..Len(canvas'.nodes) : canvas'.nodes[n] = canvas.nodes[k] ]_vars

\* the position the last step wrote for id, Absent when it wrote none
writtenBy(c, id) ==
    IF c.cause = "drag" /\ c.moved.id = id THEN c.moved.position
    ELSE IF c.effectResolved
              /\ \E k \in 1..Len(c.nodes) :
                    c.nodes[k].id = id /\ c.nodes[k].type \in {"cluster", "external"}
    THEN (c.nodes[CHOOSE k \in 1..Len(c.nodes) : c.nodes[k].id = id]).position
    ELSE Absent

\* set, get and clear of the store leave it as the claim says
roundTrip ==
    /\ \A id \in CanvasIds :
          IF writtenBy(canvas', id) # Absent
          THEN get(canvas'.savedPositions, id) = writtenBy(canvas', id)
          ELSE IF canvas'.cause = "reset"
          THEN get(canvas'.savedPositions, id) = Absent
          ELSE get(canvas'.savedPositions, id) = get(canvas.savedPositions, id)
    /\ loadSavedPositions(canvas'.storage) = canvas'.savedPositions

\* C25: get(id) after set(id, p) gives p until the next set of the same id or
\* a clear; a set of one id changes no other id; after a clear every id is
\* absent until it is set again.  The store is the ref with its stored copy,
\* from one canvas to the canvas mounted after it.
C25_StoreRoundTrip == [][ (canvas.mounted \/ canvas'.mounted) => roundTrip ]_vars

\* the round trip of a store whose storage works
C25_RoundTripOnWorkingStorage ==
    [][ ((canvas.mounted \/ canvas'.mounted) /\ storageWorks(canvas))
        => roundTrip ]_vars

\* a drag on a store that was loaded from the item text 5: nothing is set
C25_DragThrows ==
    /\ canvas.mounted
    /\ canvas.cause = "drag"
    /\ canvas.savedPositions.kind = "number"
    /\ get(canvas.savedPositions, canvas.moved.id) = Absent

entriesKept ==
    \A id \in CanvasIds :
        has(canvas.savedPositions, id) => has(canvas'.savedPositions, id)

\* C26: an id that has an entry keeps one through every drag, topology
\* refresh, status change, view-mode switch and expand or collapse; entries
\* disappear only through a reset.
C26_EntriesKeptUntilReset ==
    [][ ((canvas.mounted \/ canvas'.mounted) /\ canvas'.cause # "reset")
        => entriesKept ]_vars

\* the entries are kept while setItem does not throw
C26_KeptOnWritableStorage ==
    [][ ( /\ canvas.mounted \/ canvas'.mounted
          /\ canvas'.cause # "reset"
          /\ canvas.storage.kind \notin {"unreadable", "full"} )
        => entriesKept ]_vars

\* on storage that refuses the write they are kept while the canvas is on
\* the screen, and lost when the next one is mounted
C26_KeptUntilRemount ==
    [][ (canvas.mounted /\ canvas'.cause # "reset") => entriesKept ]_vars

---------------------------------------------------------------------------
(* mapSeverity on severity strings in every mix of upper and lower case.   *)

Critical == <<"c", "r", "i", "t", "i", "c", "a", "l">>
AlertWord == <<"a", "l", "e", "r", "t">>
Warning  == <<"w", "a", "r", "n", "i", "n", "g">>
Warn     == <<"w", "a", "r", "n">>
Ok       == <<"o", "k">>
Recovery == <<"r", "e", "c", "o", "v", "e", "r", "y">>

SeverityWords == {Critical, AlertWord, Warning, Warn, Ok, Recovery}

\* strings that are none of the six words in any case
OtherSeverities ==
    { <<>>, <<"f", "o", "o">>, <<"i", "n", "f", "o">>, <<"I", "N", "F", "O">>,
      <<"c", "r", "i", "t">>, <<"w", "a", "r", "n", "s">>, <<"o", "k", "a", "y">>,
      <<"a", "l", "e", "r", "t", " ">>, <<" ", "o", "k">>, <<"e", "r", "r", "o", "r">>,
      <<"0">>, <<"O", "K", "!">> }

toUpperChar(c) ==
    IF \E i \in 1..Len(LowerCase) : LowerCase[i] = c
    THEN UpperCase[CHOOSE i \in 1..Len(LowerCase) : LowerCase[i] = c]
    ELSE c

\* the word with the letters at the positions `upper` in upper case
Cased(word, upper) ==
    [i \in 1..Len(word) |-> IF i \in upper THEN toUpperChar(word[i]) ELSE word[i]]

SeverityInit ==
    /\ InitRest
    /\ layout = NoLayout /\ overlap = NoOverlap /\ projection = NoProjection
    /\ canvas = NoCanvas /\ loader = NoLoader
    /\ \/ \E word \in SeverityWords :
            \E upper \in SUBSET (1..Len(word)) :
                mapping = [done |-> FALSE, input |-> Cased(word, upper)]
       \/ \E other \in OtherSeverities :
            mapping = [done |-> FALSE, input |-> other]

\* severity: mapSeverity(alert.severity), in the new_alerts loop
MapSeverity ==
    /\ ~mapping.done
    /\ mapping' = [done |-> TRUE, input |-> mapping.input,
                    result |-> mapSeverity(mapping.input)]
    /\ UNCHANGED <<storeVars, connVars, msgVars, lookup, layout, overlap,
                   projection, canvas, loader>>

SeverityNext == MapSeverity

SeveritySpec == SeverityInit /\ [][SeverityNext]_vars

\* s is word, letter by letter, in whatever case
SameWord(s, word) ==
    /\ Len(s) = Len(word)
    /\ \A i \in 1..Len(word) : s[i] = word[i] \/ s[i] = toUpperChar(word[i])

\* C33: mapSeverity gives a severity for every string and ignores case:
\* critical for critical and alert, warning for warning and warn, recovery for
\* ok and recovery, info for every other string; so Alert is critical, WARN
\* warning, Recovery recovery and foo info.
C33_SeverityMapping ==
    mapping.done
    => LET s == mapping.input
       IN  /\ mapping.result \in {"critical", "warning", "recovery", "info"}
           /\ mapping.result = "critical"
                <=> SameWord(s, Critical) \/ SameWord(s, AlertWord)
           /\ mapping.result = "warning"
                <=> SameWord(s, Warning) \/ SameWord(s, Warn)
           /\ mapping.result = "recovery"
                <=> SameWord(s, Ok) \/ SameWord(s, Recovery)
           /\ s = <<"A", "l", "e", "r", "t">> => mapping.result = "critical"
           /\ s = <<"W", "A", "R", "N">> => mapping.result = "warning"
           /\ s = <<"R", "e", "c", "o", "v", "e", "r", "y">>
                => mapping.result = "recovery"
           /\ s = <<"f", "o", "o">> => mapping.result = "info"

C33_Witness ==
    /\ mapping.done
    /\ mapping.input = <<"W", "A", "R", "N">>
    /\ mapping.result = "warning"

---------------------------------------------------------------------------
(* Claims on the resolver's loop and on the members of expanded clusters.  *)

\* passes j+1 .. k, started on result, end in final; each of them but the
\* last applies a push, and the last applies none unless it is pass 50
RECURSIVE loopFollows(_, _, _, _, _)
loopFollows(result, expandedClusterIds, j, k, final) ==
    IF j = k THEN result = final
    ELSE \E after \in {resolvePass(result, expandedClusterIds)} :
            /\ j + 1 < k => after.hasOverlap
            /\ (j + 1 = k /\ k < maxIterations) => ~after.hasOverlap
            /\ loopFollows(after.result, expandedClusterIds, j + 1, k, final)

C40_LoopControl ==
    layout'.runs = layout.runs + 1
    => /\ layout'.iteration \in 1..maxIterations
       /\ loopFollows(layout.nodes, layout.expanded, 0, layout'.iteration,
                      layout'.nodes)

\* C40: resolveOverlaps ends on every input after at most 50 passes, and it
\* ends after the first pass that applied no push.
C40_BoundedPasses == [][C40_LoopControl]_vars

C40_Witness ==
    /\ layout.runs = 1
    /\ layout.iteration = maxIterations
    /\ layout.hasOverlap

\* an input that needs more than one pass and settles before the bound
C40_WitnessSettles ==
    /\ layout.runs = 1
    /\ layout.iteration > 2
    /\ layout.iteration < maxIterations
    /\ ~layout.hasOverlap

\* the vector by which node i moved in this step
moved(i) ==
    [x |-> layout'.nodes[i].position.x - layout.nodes[i].position.x,
     y |-> layout'.nodes[i].position.y - layout.nodes[i].position.y]

C35_MembersTogether ==
    layout'.runs = layout.runs + 1
    => /\ Len(layout'.nodes) = Len(layout.nodes)
       /\ \A i \in 1..Len(layout.nodes) :
             /\ layout'.nodes[i].id = layout.nodes[i].id
             /\ layout'.nodes[i].type = layout.nodes[i].type
             /\ layout'.nodes[i].clusterId = layout.nodes[i].clusterId
       /\ \A i \in 1..Len(layout.nodes), j \in 1..Len(layout.nodes) :
             SameExpandedCluster(layout.nodes[i], layout.nodes[j])
                => moved(i) = moved(j)

\* C35: resolveOverlaps translates all member devices of an expanded cluster
\* by the same vector, never one of them on its own, so the offsets between
\* the members of a cluster are the same before and after.
C35_ClusterMovesAsOne == [][C35_MembersTogether]_vars

\* every input position has y = 0, so a device with y # 0 was pushed
wasPushed(i) == layout.nodes[i].position.y # 0

\* a cluster of two member devices was pushed, and both lie at their input
\* distance from one another
C35_Witness ==
    /\ layout.runs = 1
    /\ \E i \in 1..Len(layout.nodes), j \in 1..Len(layout.nodes) :
          /\ i < j
          /\ SameExpandedCluster(layout.nodes[i], layout.nodes[j])
          /\ wasPushed(i) /\ wasPushed(j)
          /\ layout.nodes[j].position.x - layout.nodes[i].position.x = 130

---------------------------------------------------------------------------
(* Claims on the anchors of the clusters and on the grid of an expanded    *)
(* cluster.                                                                *)

\* the fallback slot of the cluster at `index` (from 0) among totalClusters
gridSlot(index, totalClusters) ==
    LET cols == CeilSqrt(totalClusters)
    IN  [x |-> 300 + (index % cols) * 400, y |-> 150 + (index \div cols) * 300]

Origin == [x |-> 0, y |-> 0]

\* the anchor of the k-th cluster, with `configured` deciding whether the
\* configured position is taken
anchorOf(topo, savedPositions, k, configured) ==
    LET cluster == topo.clusters[k]
    IN  IF has(savedPositions, cluster.id) THEN get(savedPositions, cluster.id)
        ELSE IF configured THEN cluster.position
        ELSE gridSlot(k - 1, Len(topo.clusters))

\* the positions of the collapsed cluster nodes are the anchors
anchorsAre(configuredAt(_)) ==
    (projection.phase = "nodes" /\ ~projection.threw)
    => \A k \in 1..Len(projection.topology.clusters) :
          LET cluster == projection.topology.clusters[k]
          IN  \A n \in 1..Len(projection.nodes) :
                (projection.nodes[n].type = "cluster"
                    /\ projection.nodes[n].id = cluster.id)
                => projection.nodes[n].position
                     = anchorOf(projection.topology, projection.savedPositions, k,
                                configuredAt(cluster.position))

offOrigin(position) == position # Origin

someCoordinatePositive(position) == position.x > 0 \/ position.y > 0

\* C38: a cluster's anchor is its Position Store entry when one exists,
\* otherwise its configured position whenever that is not the origin (0,0),
\* otherwise the square-grid fallback slot of its index in cluster order.
C38_AnchorOrder == anchorsAre(offOrigin)

\* what the projection does: the configured position is taken when one of
\* its coordinates is positive
C38_AnchorWhenPositive == anchorsAre(someCoordinatePositive)

\* a collapsed cluster configured at (-200, 0), without a stored position
C38_OffOriginCollapsed ==
    /\ projection.phase = "nodes" /\ ~projection.threw
    /\ \E k \in 1..Len(projection.topology.clusters) :
          LET cluster == projection.topology.clusters[k]
          IN  /\ cluster.position = [x |-> -200, y |-> 0]
              /\ cluster.id \notin projection.expandedClusters
              /\ ~has(projection.savedPositions, cluster.id)

\* the device nodes of a cluster, in the order of the projection
memberNodes(nodes, cluster) ==
    SelectSeq(nodes, LAMBDA node : node.type = "device" /\ node.clusterId = cluster.id)

\* the position of the cluster node in the projection of the same topology and
\* store with the cluster collapsed
collapsedAnchor(cluster) ==
    LET collapsed == topologyToNodes(projection.topology,
                                     projection.expandedClusters \ {cluster.id},
                                     projection.savedPositions).nodes
    IN  collapsed[CHOOSE n \in 1..Len(collapsed) :
                     collapsed[n].type = "cluster" /\ collapsed[n].id = cluster.id
                 ].position

\* member i (from 0) of n is in column i mod c and row floor(i / c), c = min(3, n),
\* columns 200 apart and rows 120 apart, and the grid is centred on the anchor
onGrid(members, anchor) ==
    LET n    == Len(members)
        c    == Min(3, n)
        xs   == {members[i].position.x : i \in 1..n}
        ys   == {members[i].position.y : i \in 1..n}
        left   == CHOOSE x \in xs : \A o \in xs : x <= o
        right  == CHOOSE x \in xs : \A o \in xs : o <= x
        top    == CHOOSE y \in ys : \A o \in ys : y <= o
        bottom == CHOOSE y \in ys : \A o \in ys : o <= y
    IN  /\ \A i \in 1..n :
             /\ members[i].position.x = left + ((i - 1) % c) * 200
             /\ members[i].position.y = top + ((i - 1) \div c) * 120
        /\ left + right = 2 * anchor.x
        /\ top + bottom = 2 * anchor.y

noneStored(members) ==
    \A i \in 1..Len(members) : ~has(projection.savedPositions, members[i].id)

\* C39: the members of an expanded cluster that have no stored positions are
\* placed row by row on a grid of min(3, n) columns, member i in column
\* i mod c and row floor(i / c), and the grid is centred on the anchor the
\* collapsed cluster has.
C39_ExpandedGrid ==
    (projection.phase = "nodes" /\ ~projection.threw)
    => \A k \in 1..Len(projection.topology.clusters) :
          LET cluster == projection.topology.clusters[k]
              members == memberNodes(projection.nodes, cluster)
          IN  (cluster.id \in projection.expandedClusters
                 /\ Len(members) > 0 /\ noneStored(members))
              => onGrid(members, collapsedAnchor(cluster))

\* what the projection does: the grid is laid out when the id of the cluster
\* names no inherited member of the loaded store; an inherited member taken for
\* the stored anchor has no coordinates and the members get none
C39_GridOnOwnAnchor ==
    (projection.phase = "nodes" /\ ~projection.threw)
    => \A k \in 1..Len(projection.topology.clusters) :
          LET cluster == projection.topology.clusters[k]
              members == memberNodes(projection.nodes, cluster)
          IN  (cluster.id \in projection.expandedClusters
                 /\ ~inherits(projection.savedPositions, cluster.id)
                 /\ Len(members) > 0 /\ noneStored(members))
              => onGrid(members, collapsedAnchor(cluster))

\* the expanded cluster "constructor" on an empty store: its members lie at NaN
C39_InheritedAnchor ==
    /\ projection.phase = "nodes" /\ ~projection.threw
    /\ "constructor" \in projection.expandedClusters
    /\ projection.savedPositions = EmptyStore
    /\ \E n \in 1..Len(projection.nodes) :
          /\ projection.nodes[n].id = "a"
          /\ projection.nodes[n].position = [x |-> NaN, y |-> NaN]

\* four members around the stored anchor (500, 500): three columns, two rows
C39_Witness ==
    /\ projection.phase = "nodes" /\ ~projection.threw
    /\ "c1" \in projection.expandedClusters
    /\ has(projection.savedPositions, "c1")
    /\ \E k \in 1..Len(projection.topology.clusters) :
          LET members == memberNodes(projection.nodes, projection.topology.clusters[k])
          IN  /\ Len(members) = 4
              /\ noneStored(members)
              /\ [i \in 1..4 |-> members[i].position]
                    = << [x |-> 300, y |-> 440], [x |-> 500, y |-> 440],
                         [x |-> 700, y |-> 440], [x |-> 300, y |-> 560] >>

---------------------------------------------------------------------------
(* Claims on the edges of a projection.                                    *)

\* the ids of the nodes of the projection the edges belong to
nodeIds(nodes) == {nodes[n].id : n \in 1..Len(nodes)}

edgesReferToNodes ==
    \E shown \in {topologyToNodes(projection.topology, projection.expandedClusters,
                                  projection.savedPositions)} :
        ~shown.threw
        => \A k \in 1..Len(projection.edges) :
              /\ projection.edges[k].source \in nodeIds(shown.nodes)
              /\ projection.edges[k].target \in nodeIds(shown.nodes)

\* C37: in every physical projection the source and the target of every edge
\* are ids of nodes of the same projection.
C37_EdgesReferToNodes == projection.phase = "edges" => edgesReferToNodes

\* every device is listed by the cluster its cluster_id names
membershipAgrees(topo) ==
    \A d \in 1..Len(topo.devices) :
        \E k \in 1..Len(topo.clusters) :
            /\ topo.clusters[k].id = topo.devices[d].cluster_id
            /\ \E i \in 1..Len(topo.clusters[k].device_ids) :
                  topo.clusters[k].device_ids[i] = topo.devices[d].id

\* on topologies whose two records of membership agree no edge dangles
C37_AgreeingTopology ==
    (projection.phase = "edges" /\ membershipAgrees(projection.topology))
    => edgesReferToNodes

\* edges are present on an agreeing topology with an expanded cluster
C37_AgreeingWithEdges ==
    /\ projection.phase = "edges"
    /\ membershipAgrees(projection.topology)
    /\ projection.expandedClusters = {"c1"}
    /\ Len(projection.edges) = 3

\* the connections an edge stands for: those that resolve to its pair
standsFor(edge) ==
    { m \in 1..Len(projection.topology.connections) :
        resolvedPair(projection.topology, projection.expandedClusters,
                     projection.topology.connections[m]) = edge.id }

\* the statuses of the two endpoint devices of the connections in `same`
endpointStatuses(same) ==
    UNION { { deviceOf(projection.topology,
                       projection.topology.connections[m].source).status,
              deviceOf(projection.topology,
                       projection.topology.connections[m].target).status }
            : m \in same }

\* the raw status of a connection: up when the document gives none
rawStatus(conn) == IF conn.status = NoStatus THEN "up" ELSE conn.status

derivedFrom(edge, same) ==
    IF "down" \in endpointStatuses(same) THEN edge.data.status = "down"
    ELSE IF "degraded" \in endpointStatuses(same) THEN edge.data.status = "degraded"
    ELSE \E m \in same :
            edge.data.status = rawStatus(projection.topology.connections[m])

\* C31: each edge's status is derived from the current device statuses: down
\* if an endpoint device of a connection it stands for is down, else degraded
\* if one is degraded, else the raw status of the connection; an edge that
\* stands for a connection of a device that is down shows down, rolled-up
\* cluster-to-cluster edges included.
C31_StatusDerived ==
    projection.phase = "edges"
    => \A k \in 1..Len(projection.edges) :
          standsFor(projection.edges[k]) # {}
          => derivedFrom(projection.edges[k], standsFor(projection.edges[k]))

\* what the projection does: the status is derived from the first of the
\* connections the edge stands for
C31_FirstConnectionDerived ==
    projection.phase = "edges"
    => \A k \in 1..Len(projection.edges) :
          LET same == standsFor(projection.edges[k])
          IN  same # {}
              => derivedFrom(projection.edges[k],
                             {CHOOSE m \in same : \A o \in same : m <= o})

\* a rolled-up edge of two connections, a device of the second one down
C31_RolledUpSecondDown ==
    /\ projection.phase = "edges"
    /\ projection.expandedClusters = {}
    /\ \E k \in 1..Len(projection.edges) :
          /\ Cardinality(standsFor(projection.edges[k])) = 2
          /\ "down" \in endpointStatuses(standsFor(projection.edges[k]))
          /\ "down" \notin endpointStatuses({1})

---------------------------------------------------------------------------
(* Claim on the ids of the alerts in the store.                            *)

\* C36: after any sequence of pushed new-alerts batches, alert fetches,
\* acknowledgements and resolutions, no two alerts in the alert store have
\* the same id.
C36_AlertIdsDistinct ==
    \A i \in 1..Len(alerts), j \in 1..Len(alerts) :
        i # j => alerts[i].id # alerts[j].id

---------------------------------------------------------------------------
(* Claim on the sockets and timers of the connection.                      *)

liveSockets == {s \in Slots : Live(s)}

\* keepalive intervals that run: the one in pingIntervalRef and those whose
\* handle was overwritten or dropped
activePings == (IF pingIntervalRef # 0 THEN 1 ELSE 0) + orphanPings

pendingTimers == {t \in Slots : timerPending[t]}

oneSocket == Cardinality(liveSockets) <= 1

onePing == activePings <= 1

oneReconnectTimer == Cardinality(pendingTimers) <= 1

timersHeld ==
    /\ orphanPings = 0
    /\ \A t \in pendingTimers : reconnectTimeoutRef = TimerId(t)

\* C34: after any sequence of connect, disconnect, open, close and
\* reconnect-timer events at most one socket is connecting or open, at most
\* one keepalive timer is active, at most one reconnect timer is pending, and
\* every active timer is one the hook holds a handle to.
C34_SingleConnection == oneSocket /\ onePing /\ oneReconnectTimer /\ timersHeld

---------------------------------------------------------------------------
(* App and useAlerts: the topology is fetched on mount and every 60 s, the *)
(* alerts on mount and every 30 s by each of the two components that run   *)
(* useAlerts.  `loader` holds nocStore's isLoading and error, the requests *)
(* in flight of each kind, the calls made so far and the last event.  No   *)
(* request has a timeout and no interval waits for an answer, so requests  *)
(* pile up while they are unanswered and are answered in any order.        *)

MaxLoads == 4         \* calls of loadTopology, and of loadAlerts

LoaderSnapshots == {Snapshot(AlertDevices, n) : n \in 0..1}

\* what Layout renders
View ==
    IF loader.error # NoError THEN "error"
    ELSE IF loader.isLoading THEN "loading"
    ELSE "canvas"

LoaderInit ==
    /\ InitRest
    /\ layout = NoLayout /\ overlap = NoOverlap /\ projection = NoProjection
    /\ canvas = NoCanvas /\ mapping = NoMapping
    /\ loader = NoLoader

LoaderUnchanged ==
    UNCHANGED <<connVars, msgVars, lookup, layout, overlap, projection, canvas, mapping>>

\* the requests in flight, by the call that started them: the mount effect
\* or the interval
InFlight(initial, refresh) == [initial |-> initial, refresh |-> refresh]

inFlight(requests) == requests.initial + requests.refresh

\* the kinds of request of which one is in flight
kindsInFlight(requests) == {kind \in {"initial", "refresh"} : requests[kind] > 0}

\* the mount effects of App and of useAlerts: loadTopology() once, and
\* loadAlerts() once in each of the two components that run useAlerts,
\* ToastContainer and CriticalOverlay
MountApp ==
    /\ ~loader.started
    /\ loader' = [started |-> TRUE, isLoading |-> TRUE, error |-> NoError,
                  pending |-> InFlight(1, 0), loads |-> 1,
                  alertsPending |-> InFlight(2, 0), alertLoads |-> 2,
                  last |-> "mount"]
    /\ UNCHANGED storeVars
    /\ LoaderUnchanged

\* loadTopology: one fetchTopology() resolved; setTopology, then
\* setLoading(false)
TopologyFetched ==
    /\ loader.started
    /\ \E kind \in kindsInFlight(loader.pending), t \in LoaderSnapshots :
          /\ topology' = setTopology(t)
          /\ loader' = [loader EXCEPT !.error = NoError, !.isLoading = FALSE,
                                      !.pending[kind] = @ - 1, !.last = "fetched"]
    /\ UNCHANGED <<alerts, toasts, criticalOverlay, removals, now>>
    /\ LoaderUnchanged

\* loadTopology: one fetchTopology() rejected; setError, then setLoading(false)
TopologyFetchFailed ==
    /\ loader.started
    /\ \E kind \in kindsInFlight(loader.pending) :
          loader' = [loader EXCEPT !.error = FetchError, !.isLoading = FALSE,
                                   !.pending[kind] = @ - 1,
                                   !.last = IF kind = "initial"
                                            THEN "initialFailed" ELSE "refreshFailed"]
    /\ UNCHANGED storeVars
    /\ LoaderUnchanged

\* setInterval(loadTopology, 60000) fires, whether or not an earlier request
\* is answered: setLoading(true), the fetch starts
TopologyInterval ==
    /\ loader.started
    /\ loader.loads < MaxLoads
    /\ loader' = [loader EXCEPT !.isLoading = TRUE, !.pending.refresh = @ + 1,
                                !.loads = @ + 1, !.last = "interval"]
    /\ UNCHANGED storeVars
    /\ LoaderUnchanged

\* loadAlerts: one fetchAlerts() resolved; setAlerts(alertList)
AlertsFetched ==
    /\ loader.started
    /\ \E kind \in kindsInFlight(loader.alertsPending), list \in FetchedAlerts :
          /\ alerts' = setAlerts(Store(topology, alerts, toasts, criticalOverlay),
                                 list).alerts
          /\ loader' = [loader EXCEPT !.alertsPending[kind] = @ - 1,
                                      !.last = "alertsFetched"]
    /\ UNCHANGED <<topology, toasts, criticalOverlay, removals, now>>
    /\ LoaderUnchanged

\* loadAlerts: one fetchAlerts() rejected; console.error only
AlertsFetchFailed ==
    /\ loader.started
    /\ \E kind \in kindsInFlight(loader.alertsPending) :
          loader' = [loader EXCEPT !.alertsPending[kind] = @ - 1,
                                   !.last = IF kind = "initial"
                                            THEN "alertsInitialFailed"
                                            ELSE "alertsRefreshFailed"]
    /\ UNCHANGED storeVars
    /\ LoaderUnchanged

\* setInterval(loadAlerts, 30000) of one of the two useAlerts fires, whether
\* or not an earlier request is answered
AlertsInterval ==
    /\ loader.started
    /\ loader.alertLoads < MaxLoads
    /\ loader' = [loader EXCEPT !.alertsPending.refresh = @ + 1,
                                !.alertLoads = @ + 1, !.last = "alertsInterval"]
    /\ UNCHANGED storeVars
    /\ LoaderUnchanged

LoaderNext ==
    \/ MountApp
    \/ TopologyFetched
    \/ TopologyFetchFailed
    \/ TopologyInterval
    \/ AlertsFetched
    \/ AlertsFetchFailed
    \/ AlertsInterval

LoaderSpec == LoaderInit /\ [][LoaderNext]_vars

\* this step is the failure of a periodic refresh, of the topology or of the
\* alerts, with a topology loaded and no error shown
refreshFails ==
    /\ loader.started
    /\ topology # NullTopology /\ loader.error = NoError
    /\ \/ /\ loader'.last = "refreshFailed"
          /\ loader'.pending.refresh = loader.pending.refresh - 1
       \/ /\ loader'.last = "alertsRefreshFailed"
          /\ loader'.alertsPending.refresh = loader.alertsPending.refresh - 1

C32_RefreshFailure ==
    refreshFails
    => /\ loader'.error = NoError
       /\ topology' = topology
       /\ inFlight(loader'.pending) = 0 => (View = "canvas")'

\* C32: the failure of a periodic refresh, after a topology was loaded,
\* leaves the error state unset and the loaded topology on display; only the
\* failure of the initial load is shown as an error.
C32_RefreshFailureSilent == [][C32_RefreshFailure]_vars

\* what holds: no failure of an alert fetch, initial or periodic, touches
\* the error state, the loading flag or the topology
C32_AlertFailure ==
    loader'.last \in {"alertsInitialFailed", "alertsRefreshFailed"}
    => /\ loader'.error = loader.error
       /\ loader'.isLoading = loader.isLoading
       /\ topology' = topology

C32_AlertFailureSilent == [][C32_AlertFailure]_vars

\* every failure of a topology fetch, initial or periodic, shows the error
C32_TopologyFailureShown ==
    (loader.started /\ loader.last \in {"initialFailed", "refreshFailed"})
    => View = "error"

\* the loaded topology is on display, then the periodic fetch fails
C32_ErrorOverLoadedTopology ==
    /\ loader.started
    /\ loader.last = "refreshFailed"
    /\ topology # NullTopology
    /\ View = "error"

=========================================================================
